---- MODULE Spec2Model ----
(***************************************************************************)
(* The document-processing workflow of src/step_functions/state_machine.json *)
(* (Amazon States Language): a Map state that runs, for every document of a  *)
(* batch, the item processor Choice -> {Run-IDP-On-Image | Read-Office-File  *)
(* | Run-BDA | Extract-text} -> Run-IDP-On-Text -> Pass, with the Retry and  *)
(* Catch fields of every Task state.                                         *)
(*                                                                           *)
(* Strings that the workflow matches character by character (file names,     *)
(* StringMatches patterns) are sequences of one-character strings.           *)
(***************************************************************************)
EXTENDS Integers, Sequences, FiniteSets, TLC

\* ------------------------------------------------------------------ bounds

\* Documents in a batch of the specification Spec.
NumDocs == 2

\* Task errors the environment raises in one run of Spec.
MaxFaults == 4

\* Task errors the environment raises in one run of SpecDoc.
MaxFaultsDoc == 7

\* Documents a batch of SpecPool has beyond the concurrency ceiling.
PoolExtra == 1

\* Members of the longest attributes object that SpecSubmit enumerates member
\* by member (names and descriptions in every combination).
MaxListed == 2

\* Names the JSON objects of the answers of SpecParse take their keys from (the
\* first MaxKeys of KeyNames).
MaxKeys == 2

\* Calls of functions that hang in one run of SpecTimeout.
MaxHangs == 4

\* The longest text of a document of SpecPrompt, in characters.
MaxTextLen == 12

\* The largest token limit a text of SpecPrompt is cut to.
MaxTokens == 2

\* The most few-shot examples of an event of SpecPrompt.
MaxExamples == 2

\* ------------------------------------------------- the workflow, as data

\* Map.MaxConcurrency
MaxConcurrency == 10

ParsingModes == {"Amazon Textract", "Amazon Bedrock LLM", "Bedrock Data Automation"}

ImageExtensions ==
    { <<"j","p","g">>, <<"j","p","e","g">>, <<"p","n","g">>, <<"p","d","f">> }

OfficeExtensions ==
    { <<"d","o","c">>, <<"d","o","c","x">>, <<"p","p","t">>, <<"p","p","t","x">>,
      <<"x","l","s">>, <<"x","l","s","x">>, <<"h","t","m","l">>, <<"h","t","m">>,
      <<"m","d">>, <<"m","a","r","k","d","o","w","n">>, <<"c","s","v">> }

\* A pattern "*.<ext>", which asks for no "/" in the file name.
ExtensionPatternAnyName(ext) == <<"*", ".">> \o ext

\* The pattern "*/*.<ext>" of the Choice rules.
ExtensionPattern(ext) == <<"*", "/", "*", ".">> \o ext

\* StringMatches: the pattern matches the whole string, "*" standing for zero
\* or more characters.
RECURSIVE StringMatches(_, _)
StringMatches(s, p) ==
    IF p = <<>> THEN s = <<>>
    ELSE IF Head(p) = "*"
         THEN StringMatches(s, Tail(p))
              \/ (s # <<>> /\ StringMatches(Tail(s), p))
         ELSE s # <<>> /\ Head(s) = Head(p) /\ StringMatches(Tail(s), Tail(p))

\* An image rule whose patterns ask for no "/" in the file name.
ImageRuleAnyName(item) ==
    /\ \E ext \in ImageExtensions :
           StringMatches(item.file_name, ExtensionPatternAnyName(ext))
    /\ item.parsing_mode = "Amazon Bedrock LLM"

\* Choices[0]: the And of the image-extension Or and the LLM parsing mode.
ImageRule(item) ==
    /\ \E ext \in ImageExtensions :
           StringMatches(item.file_name, ExtensionPattern(ext))
    /\ item.parsing_mode = "Amazon Bedrock LLM"

\* An office rule that leaves the office files of the automation mode to the
\* automation rule.
OfficeRuleNotAutomation(item) ==
    /\ \E ext \in OfficeExtensions :
           StringMatches(item.file_name, ExtensionPattern(ext))
    /\ item.parsing_mode # "Bedrock Data Automation"

\* Choices[1]: the Or of the office extensions.
OfficeRule(item) ==
    \E ext \in OfficeExtensions :
        StringMatches(item.file_name, ExtensionPattern(ext))

\* Choices[2]: the automation parsing mode.
AutomationRule(item) == item.parsing_mode = "Bedrock Data Automation"

\* A Choice state without its image rule.
ChoiceNoImageRule(item) ==
    IF OfficeRule(item) THEN "Read-Office-File"
    ELSE IF AutomationRule(item) THEN "Run-BDA"
    ELSE "Extract-text"

\* A Choice state without its Default: an item no rule matches ends the
\* iteration with States.NoChoiceMatched.
ChoiceNoDefault(item) ==
    IF ImageRule(item) THEN "Run-IDP-On-Image"
    ELSE IF OfficeRule(item) THEN "Read-Office-File"
    ELSE IF AutomationRule(item) THEN "Run-BDA"
    ELSE "States.NoChoiceMatched"

\* A Choice state with the automation rule placed before the office rule.
ChoiceAutomationFirst(item) ==
    IF ImageRule(item) THEN "Run-IDP-On-Image"
    ELSE IF AutomationRule(item) THEN "Run-BDA"
    ELSE IF OfficeRule(item) THEN "Read-Office-File"
    ELSE "Extract-text"

\* The Choice state: the rules are tried in order, the first that holds gives
\* the next state, and Default is taken when none holds.
Choice(item) ==
    IF ImageRule(item) THEN "Run-IDP-On-Image"
    ELSE IF OfficeRule(item) THEN "Read-Office-File"
    ELSE IF AutomationRule(item) THEN "Run-BDA"
    ELSE "Extract-text"

AcquisitionStates == {"Read-Office-File", "Extract-text"}
InvocationStates == {"Run-IDP-On-Text", "Run-IDP-On-Image"}
TaskStates == AcquisitionStates \cup InvocationStates \cup {"Run-BDA"}
Strategies == {"Run-IDP-On-Image", "Read-Office-File", "Run-BDA", "Extract-text"}

\* The error names of the Lambda service that the first retrier of every Task
\* lists.
LambdaServiceErrors ==
    { "Lambda.ServiceException", "Lambda.AWSLambdaException",
      "Lambda.SdkClientException", "Lambda.TooManyRequestsException" }

\* The retrier of Read-Office-File and Extract-text, and the first retrier of
\* the other Task states.
ServiceRetrier ==
    [ ErrorEquals |-> LambdaServiceErrors, IntervalSeconds |-> 1,
      MaxAttempts |-> 3, BackoffRate |-> 2, JitterStrategy |-> "NONE" ]

\* The second retrier of Run-IDP-On-Text, Run-BDA and Run-IDP-On-Image.
TaskFailedRetrier ==
    [ ErrorEquals |-> {"States.TaskFailed"}, IntervalSeconds |-> 1,
      MaxAttempts |-> 3, BackoffRate |-> 2, JitterStrategy |-> "FULL" ]

\* Retry fields that allow two retries where the workflow allows three.
RetryTwice(state) ==
    IF state \in AcquisitionStates
    THEN << [ServiceRetrier EXCEPT !.MaxAttempts = 2] >>
    ELSE << [ServiceRetrier EXCEPT !.MaxAttempts = 2],
            [TaskFailedRetrier EXCEPT !.MaxAttempts = 2] >>

\* Retry fields without the States.TaskFailed retrier.
RetryServiceOnly(state) == << ServiceRetrier >>

\* Retry fields that allow four retries where the workflow allows three.
RetryOnceMore(state) ==
    IF state \in AcquisitionStates
    THEN << [ServiceRetrier EXCEPT !.MaxAttempts = 4] >>
    ELSE << [ServiceRetrier EXCEPT !.MaxAttempts = 4],
            [TaskFailedRetrier EXCEPT !.MaxAttempts = 4] >>

\* The Retry field of a Task state.
Retry(state) ==
    IF state \in AcquisitionStates
    THEN << ServiceRetrier >>
    ELSE << ServiceRetrier, TaskFailedRetrier >>

\* Catch fields that send no error to Pass.
CatchNothing(state) == << >>

\* Catch fields that give the acquisition states the catcher of the others.
CatchOnEveryState(state) ==
    << [ErrorEquals |-> {"States.TaskFailed"}, Next |-> "Pass"] >>

\* Catch fields that name the functions' exceptions instead of States.TaskFailed.
CatchFunctionErrorsOnly(state) ==
    IF state \in AcquisitionStates
    THEN << >>
    ELSE << [ErrorEquals |-> {"JSONDecodeError", "ValueError"}, Next |-> "Pass"] >>

\* The Catch field of a Task state: Read-Office-File and Extract-text have
\* none.
Catch(state) ==
    IF state \in AcquisitionStates
    THEN << >>
    ELSE << [ErrorEquals |-> {"States.TaskFailed"}, Next |-> "Pass"] >>

\* Next fields that send Run-IDP-On-Text back to Extract-text.
NextStateBackToAcquisition(state) ==
    IF state \in AcquisitionStates THEN "Run-IDP-On-Text"
    ELSE IF state = "Run-IDP-On-Text" THEN "Extract-text"
    ELSE "End"

\* Next fields that end the iteration after the acquisition states too.
NextStateAlwaysEnd(state) == "End"

\* A Next field that executes an acquisition state again after it succeeded.
NextStateAcquisitionAgain(state) ==
    IF state \in AcquisitionStates THEN state ELSE "End"

\* The Next field of a Task state; "End" stands for End: true.
NextState(state) ==
    IF state \in AcquisitionStates THEN "Run-IDP-On-Text" ELSE "End"

\* BackoffRate to the power n.
RECURSIVE Power(_, _)
Power(rate, n) == IF n = 0 THEN 1 ELSE rate * Power(rate, n - 1)

\* A retry interval that ignores BackoffRate.
BackoffConstant(retrier, k) == retrier.IntervalSeconds

\* The retry interval of a retrier's k-th retry, in seconds: IntervalSeconds
\* multiplied by BackoffRate on every retry after the first.
Backoff(retrier, k) == retrier.IntervalSeconds * Power(retrier.BackoffRate, k - 1)

\* The delays the k-th retry of a retrier can wait, in whole seconds: the retry
\* interval, or with JitterStrategy FULL any delay from 0 to the retry interval.
RetryDelays(retrier, k) ==
    IF retrier.JitterStrategy = "FULL"
    THEN 0..Backoff(retrier, k)
    ELSE { Backoff(retrier, k) }

\* Whether an ErrorEquals list matches an error name: by name, or by the
\* wildcards States.ALL and States.TaskFailed (every error but States.Timeout).
ErrorMatches(errorEquals, error) ==
    \/ error \in errorEquals
    \/ "States.ALL" \in errorEquals
    \/ "States.TaskFailed" \in errorEquals /\ error # "States.Timeout"

\* The index of the first retrier (or catcher) of a list that matches the
\* error, 0 when none does.
FirstMatch(list, error) ==
    LET hits == { i \in 1..Len(list) : ErrorMatches(list[i].ErrorEquals, error) }
    IN IF hits = {} THEN 0 ELSE CHOOSE i \in hits : \A j \in hits : i <= j

\* ------------------------------------- the answer of the model is parsed

\* Texts are sequences of characters, each a string of one character, the
\* backtick written "backtick". A JSON value is a tuple that
\* starts with its kind: <<"null">>, <<"number", digits>>, <<"string", chars>>,
\* <<"array", values>>, <<"object", function from keys to values>>.

Whitespace == { " ", "\n" }
Digits == { "1", "2", "5" }

\* str.find: the index (from 0) of the first place of sub in s, -1 if none.
Find(s, sub) ==
    LET places == { i \in 0..(Len(s) - Len(sub)) :
                      SubSeq(s, i + 1, i + Len(sub)) = sub }
    IN IF places = {} THEN -1
       ELSE CHOOSE i \in places : \A j \in places : i <= j

\* str.rfind: the index (from 0) of the last place of sub in s, -1 if none.
RFind(s, sub) ==
    LET places == { i \in 0..(Len(s) - Len(sub)) :
                      SubSeq(s, i + 1, i + Len(sub)) = sub }
    IN IF places = {} THEN -1
       ELSE CHOOSE i \in places : \A j \in places : i >= j

\* s[start:end] for indices that are not negative.
Slice(s, start, end) == SubSeq(s, start + 1, end)

\* Whitespace removed from the start of s.
RECURSIVE LStrip(_)
LStrip(s) ==
    IF s # << >> /\ Head(s) \in Whitespace THEN LStrip(Tail(s)) ELSE s

\* Whitespace removed from the end of s.
RECURSIVE RStrip(_)
RStrip(s) ==
    IF s # << >> /\ s[Len(s)] \in Whitespace
    THEN RStrip(SubSeq(s, 1, Len(s) - 1)) ELSE s

\* str.strip
Strip(s) == RStrip(LStrip(s))

\* The outcomes of the steps of the JSON decoder: a value and the text left
\* after it, or a failure.
Decoded(value, rest) == [ok |-> TRUE, value |-> value, rest |-> rest]
NotDecoded == [ok |-> FALSE, value |-> <<"null">>, rest |-> << >>]

\* A string after its opening quote: the characters up to the closing quote;
\* a line break inside a string is not JSON.
RECURSIVE ParseString(_, _)
ParseString(s, chars) ==
    IF s = << >> \/ Head(s) = "\n" THEN NotDecoded
    ELSE IF Head(s) = "\"" THEN Decoded(<<"string", chars>>, Tail(s))
    ELSE ParseString(Tail(s), Append(chars, Head(s)))

\* A number: its digits.
RECURSIVE ParseNumber(_, _)
ParseNumber(s, digits) ==
    IF s # << >> /\ Head(s) \in Digits
    THEN ParseNumber(Tail(s), Append(digits, Head(s)))
    ELSE Decoded(<<"number", digits>>, s)

RECURSIVE ParseValue(_), ParseItems(_, _), ParseMembers(_, _)

\* A value at the start of s.
ParseValue(s) ==
    IF s = << >> THEN NotDecoded
    ELSE IF Head(s) = "{" THEN
        LET t == LStrip(Tail(s)) IN
        IF t # << >> /\ Head(t) = "}"
        THEN Decoded(<<"object", << >> >>, Tail(t))
        ELSE ParseMembers(t, << >>)
    ELSE IF Head(s) = "[" THEN
        LET t == LStrip(Tail(s)) IN
        IF t # << >> /\ Head(t) = "]"
        THEN Decoded(<<"array", << >> >>, Tail(t))
        ELSE ParseItems(t, << >>)
    ELSE IF Head(s) = "\"" THEN ParseString(Tail(s), << >>)
    ELSE IF Head(s) \in Digits THEN ParseNumber(s, << >>)
    ELSE IF Len(s) >= 4 /\ SubSeq(s, 1, 4) = <<"n","u","l","l">>
    THEN Decoded(<<"null">>, SubSeq(s, 5, Len(s)))
    ELSE NotDecoded

\* The items of an array, from the start of an item to the closing bracket.
ParseItems(s, items) ==
    LET item == ParseValue(s) IN
    IF ~item.ok THEN NotDecoded
    ELSE LET t == LStrip(item.rest) IN
         IF t = << >> THEN NotDecoded
         ELSE IF Head(t) = "]"
         THEN Decoded(<<"array", Append(items, item.value)>>, Tail(t))
         ELSE IF Head(t) = ","
         THEN ParseItems(LStrip(Tail(t)), Append(items, item.value))
         ELSE NotDecoded

\* The members of an object, from the start of a key to the closing brace; a
\* key written again replaces the value it had.
ParseMembers(s, members) ==
    IF s = << >> \/ Head(s) # "\"" THEN NotDecoded
    ELSE
    LET key == ParseString(Tail(s), << >>) IN
    IF ~key.ok THEN NotDecoded
    ELSE
    LET t == LStrip(key.rest) IN
    IF t = << >> \/ Head(t) # ":" THEN NotDecoded
    ELSE
    LET member == ParseValue(LStrip(Tail(t))) IN
    IF ~member.ok THEN NotDecoded
    ELSE
    LET u == LStrip(member.rest)
        name == key.value[2]
        added == [ k \in DOMAIN members \cup {name} |->
                     IF k = name THEN member.value ELSE members[k] ]
    IN IF u = << >> THEN NotDecoded
       ELSE IF Head(u) = "}" THEN Decoded(<<"object", added>>, Tail(u))
       ELSE IF Head(u) = "," THEN ParseMembers(LStrip(Tail(u)), added)
       ELSE NotDecoded

\* json.loads: the value the whole text is, whitespace around it allowed; the
\* error JSONDecodeError otherwise.
json_loads(s) ==
    LET decoded == ParseValue(LStrip(s)) IN
    IF decoded.ok /\ LStrip(decoded.rest) = << >>
    THEN [error |-> "", data |-> decoded.value]
    ELSE [error |-> "JSONDecodeError", data |-> <<"null">>]

\* The marker of a JSON block in markdown, and the marker that ends it.
JsonFence == <<"backtick","backtick","backtick","j","s","o","n">>
Fence == <<"backtick","backtick","backtick">>

\* The text parse_response hands to json.loads: the text between the first
\* ```json and the last ```, stripped, when the text has a ```json, else the
\* whole text.
ExtractJsonBlock(response_text) ==
    IF Find(response_text, JsonFence) # -1
    THEN Strip(Slice(response_text,
                     Find(response_text, JsonFence) + 7,
                     RFind(response_text, Fence)))
    ELSE response_text

\* The text parse_ai_response hands to json.loads: as ExtractJsonBlock, and
\* with no ```json the text between the first ``` and the last ``` when the
\* text has a ```.
ExtractBlock(response_text) ==
    IF Find(response_text, JsonFence) # -1
    THEN ExtractJsonBlock(response_text)
    ELSE IF Find(response_text, Fence) # -1
    THEN Strip(Slice(response_text,
                     Find(response_text, Fence) + 3,
                     RFind(response_text, Fence)))
    ELSE response_text

\* str(e) of a JSONDecodeError: the message of the decoder (followed by the
\* line, column and position of the failure, left out here); the text that
\* was decoded is not part of it.
DecodeErrorMessage ==
    <<"E","x","p","e","c","t","i","n","g"," ","v","a","l","u","e">>

\* The message of the ValueError of parse_ai_response.
InvalidJsonMessage ==
    <<"A","I"," ","r","e","t","u","r","n","e","d"," ",
      "i","n","v","a","l","i","d"," ","J","S","O","N">>

\* What a parser ends with: the error it raises ("" for none) with the
\* message of the error, the value it returns, the text it handed to
\* json.loads (response_text, assigned anew), and the text it wrote to the log.
ParserResult(loaded, error, message, text) ==
    [ error |-> IF loaded.error = "" THEN "" ELSE error,
      errorMessage |-> IF loaded.error = "" THEN << >> ELSE message,
      data |-> loaded.data,
      response_text |-> text,
      logged |-> IF loaded.error = "" THEN << >> ELSE text ]

\* The value v as json_loads gives it, without the members of an object that
\* are null.
DropNulls(v) ==
    IF v[1] # "object" THEN v
    ELSE <<"object", [ k \in { n \in DOMAIN v[2] : v[2][n] # <<"null">> } |->
                         v[2][k] ]>>

\* parse_response that leaves out the members of the answer that are null.
parse_responseDropsNulls(response_text) ==
    LET text == ExtractJsonBlock(response_text)
        loaded == json_loads(text)
    IN ParserResult([error |-> loaded.error, data |-> DropNulls(loaded.data)],
                    "JSONDecodeError", DecodeErrorMessage, text)

\* The value v as json_loads gives it, a value that is not an array put into an
\* array of one item when it is a member of an object.
WrapScalars(v) ==
    IF v[1] # "object" THEN v
    ELSE <<"object", [ k \in DOMAIN v[2] |->
                         IF v[2][k][1] = "array" THEN v[2][k]
                         ELSE <<"array", << v[2][k] >> >> ]>>

\* parse_response that makes every value of the answer a list.
parse_responseWrapsScalars(response_text) ==
    LET text == ExtractJsonBlock(response_text)
        loaded == json_loads(text)
    IN ParserResult([error |-> loaded.error, data |-> WrapScalars(loaded.data)],
                    "JSONDecodeError", DecodeErrorMessage, text)

\* parse_response that raises an error whose message is the text of the answer.
parse_responseRaisesText(response_text) ==
    LET text == ExtractJsonBlock(response_text)
    IN ParserResult(json_loads(text), "JSONDecodeError", response_text, text)

\* parse_response: json.loads of the text of ExtractJsonBlock; a
\* JSONDecodeError is logged with that text and raised again.
parse_response(response_text) ==
    LET text == ExtractJsonBlock(response_text)
    IN ParserResult(json_loads(text), "JSONDecodeError", DecodeErrorMessage,
                    text)

\* parse_ai_response: json.loads of the text of ExtractBlock; a
\* JSONDecodeError is logged with that text and raised as a ValueError.
parse_ai_response(response_text) ==
    LET text == ExtractBlock(response_text)
    IN ParserResult(json_loads(text), "ValueError", InvalidJsonMessage, text)

\* ------------------------------------------- the attributes of a request

\* validate_attributes: the most attributes a request may have.
MaxAttributesAllowed == 50

\* validate_attributes: the least length of a description.
MinDescriptionLength == 5

\* json.loads of the attributes object of a request, given as the sequence of
\* its members as written: the dict of the names, a name written more than
\* once having the description of its last member.
JsonLoads(members) ==
    [ name \in { members[i].name : i \in 1..Len(members) } |->
        LET last == CHOOSE i \in 1..Len(members) :
                        /\ members[i].name = name
                        /\ \A j \in (i + 1)..Len(members) : members[j].name # name
        IN members[last].description ]

\* A validation that does not limit the number of attributes.
validate_attributesNoMaximum(attrs) ==
    IF DOMAIN attrs = {} THEN "Must provide at least one attribute"
    ELSE IF \E key \in DOMAIN attrs :
                attrs[key] = << >> \/ Len(attrs[key]) < MinDescriptionLength
    THEN "Attribute needs better description"
    ELSE "ok"

\* validate_attributes: the ValueError it raises for a dict of attributes, "ok"
\* when it raises none.
validate_attributes(attrs) ==
    IF DOMAIN attrs = {} THEN "Must provide at least one attribute"
    ELSE IF Cardinality(DOMAIN attrs) > MaxAttributesAllowed
    THEN "Maximum 50 attributes allowed"
    ELSE IF \E key \in DOMAIN attrs :
                attrs[key] = << >> \/ Len(attrs[key]) < MinDescriptionLength
    THEN "Attribute needs better description"
    ELSE "ok"

\* ------------------------------------------------------- the environment

\* File names of the batches of Spec: a PDF and an office file, which the three
\* parsing modes send to the four strategies.
FileNames ==
    << <<"d","/","a",".","p","d","f">>,
       <<"d","/","a",".","d","o","c","x">> >>

\* Error names a Lambda invocation ends with: two of the service's, and the
\* exceptions the functions raise (ValueError from a handler, and
\* json.JSONDecodeError from parse_response in the model-invocation functions).
TransientErrors == {"Lambda.ServiceException", "Lambda.TooManyRequestsException"}
PermanentErrors == {"JSONDecodeError", "ValueError"}
ErrorNames == TransientErrors \cup PermanentErrors

\* The error a Lambda invocation ends with when the function runs longer than
\* the timeout of the function.
TimeoutErrors == {"Sandbox.Timedout"}

\* The errors the task of a state can end with.
TaskErrors(state) ==
    (IF state \in InvocationStates
     THEN ErrorNames
     ELSE ErrorNames \ {"JSONDecodeError"}) \cup TimeoutErrors

\* The letters, for str.lower.
UpperCase ==
    << "A","B","C","D","E","F","G","H","I","J","K","L","M",
       "N","O","P","Q","R","S","T","U","V","W","X","Y","Z" >>
LowerCase ==
    << "a","b","c","d","e","f","g","h","i","j","k","l","m",
       "n","o","p","q","r","s","t","u","v","w","x","y","z" >>

\* str.lower of a character.
Lower(c) ==
    IF \E i \in DOMAIN UpperCase : UpperCase[i] = c
    THEN LowerCase[CHOOSE i \in DOMAIN UpperCase : UpperCase[i] = c]
    ELSE c

\* read_office_file's file_extension: key.split('.')[-1].lower(), the part
\* of the key after its last "." (the key itself when it has none), in lower
\* case.
FileExtension(key) ==
    LET dot == RFind(key, <<".">>)
    IN [i \in 1..(Len(key) - dot - 1) |-> Lower(key[dot + 1 + i])]

\* read_office_file's lambda_handler: the error it raises for the key of a
\* file, "" when it returns the text. It reads docx, xlsx and pptx.
ReadOfficeFileError(key) ==
    IF FileExtension(key) \in { <<"d","o","c","x">>, <<"x","l","s","x">>,
                                <<"p","p","t","x">> }
    THEN ""
    ELSE "ValueError"

\* The steps of the Lambda function of a Task state. The model-invocation
\* handlers build the prompt, call the model and parse its answer; the other
\* handlers are taken as one step.
HandlerSteps(state) ==
    IF state \in InvocationStates
    THEN << "build_extraction_prompt", "invoke_bedrock_model", "parse_response" >>
    ELSE << "lambda_handler" >>

\* The step of the function of a state (index in HandlerSteps) that raises an
\* error: parse_response raises JSONDecodeError, the call of the model (or the
\* handler) raises ValueError; 0 for the errors of the Lambda service, which no
\* step of the function raises.
RaisingStep(state, error) ==
    IF error \in LambdaServiceErrors THEN 0
    ELSE IF error = "JSONDecodeError" THEN 3
    ELSE IF state \in InvocationStates THEN 2
    ELSE 1

\* ------------------------------------------------------------------ state

VARIABLES
    documents,     \* the execution input's documents: a sequence of file names
    parsing_mode,  \* the execution input's parsing_mode
    execution,     \* "RUNNING", "SUCCEEDED", "FAILED" or "TIMED_OUT" (and in
                   \* SpecSubmit "SUBMITTED" or "REJECTED")
    st,            \* per document: "Pending", the state it is in, or "End"
    iter,          \* per document: the Map iteration's status
    retries,       \* per document: retries made by each retrier of the state
                   \* it is in (the counts end with the state's execution)
    execs,         \* per document and Task state: times the state was executed,
                   \* counted until the document leaves the state (and Pass);
                   \* from then on 1 for a state that was entered
    output,        \* per document: the keys of the iteration's output, and the
                   \* error name it carries or the iteration failed with
    mapOutput,     \* the Map state's output array (indices of documents)
    budget,        \* task errors the environment may still raise
    lastWait,      \* per document: seconds waited before the latest retry of
                   \* the state it is in, 0 before the first retry
    raisedAt,      \* per document: the step of the function (index in
                   \* HandlerSteps) that raised the error of the latest retry
                   \* of the state it is in, 0 for a service error or no retry
    attributes,    \* the attributes object of the request: the sequence of
                   \* its members (name, description) as written
    response,      \* the answer of the model to one prompt: the JSON object
                   \* it holds, the text around the object, and the whole text
    extracted_data,\* what the parser made of the answer: the parser, the
                   \* error it raised ("" for none) with its message, the
                   \* value it returned, the text it decoded and its log
    event,         \* the input of a function that builds a prompt: the text
                   \* of the document, the few-shot examples and the
                   \* instructions of the request
    prompt,        \* the prompt built from the event: the builder and the
                   \* blocks of the prompt in their order
    max_tokens,    \* the token limit the text of the event is cut to
    returned,      \* what truncate_text returned for the text of the event
    invocation     \* the call of the model for the prompt: the function, the
                   \* model id, the body built, whether the endpoint was
                   \* invoked, the text read from the answer and the error

vars == << documents, parsing_mode, execution, st, iter, retries, execs,
           output, mapOutput, budget, lastWait, raisedAt, attributes,
           response, extracted_data, event, prompt, max_tokens, returned,
           invocation >>

Docs == 1..Len(documents)

\* No prompt is built and no text is cut.
NoEvent == [text |-> << >>, few_shot_examples |-> << >>, instructions |-> << >>]
NoPrompt == [builder |-> "none", blocks |-> << >>]
NotTruncated == [done |-> FALSE, text |-> << >>]

\* No model is called.
NoInvocation ==
    [ function |-> "none", model_id |-> << >>, prompt |-> << >>,
      pc |-> "idle", body |-> "none", sent |-> "none", read |-> "none",
      text |-> << >>, error |-> "" ]

\* The variables of the prompt are idle.
PromptIdle ==
    /\ event = NoEvent
    /\ prompt = NoPrompt
    /\ max_tokens = 0
    /\ returned = NotTruncated

\* The file name of a result that carries none.
NoFileName == << >>

NoOutput == [keys |-> {}, error |-> "", file_name |-> NoFileName]

\* The fields of the execution's input that the workflow hands on unread; they
\* are the same in every run of the model.
model_params == [ model_id |-> "model", temperature |-> "0" ]
few_shots == << >>
instructions == <<"x">>

\* Map.ItemSelector: the item of document d.
ItemSelector(d) ==
    [ file_name |-> documents[d], attributes |-> JsonLoads(attributes),
      model_params |-> model_params, parsing_mode |-> parsing_mode,
      few_shots |-> few_shots, instructions |-> instructions ]

\* The execution's input, $$.Execution.Input.
ExecutionInput ==
    [ documents |-> documents, attributes |-> JsonLoads(attributes),
      model_params |-> model_params, parsing_mode |-> parsing_mode,
      few_shots |-> few_shots, instructions |-> instructions ]

\* States.JsonMerge(a, b, false): the fields of both objects, those of b
\* replacing those of a.
JsonMerge(a, b) ==
    [ k \in DOMAIN a \cup DOMAIN b |-> IF k \in DOMAIN b THEN b[k] ELSE a[k] ]

\* The body the functions of Read-Office-File and Extract-text return for an
\* item: it names the document the text was taken from.
AcquisitionBody(item) == [ file_name |-> item.file_name ]

\* The body the functions of Run-IDP-On-Text, Run-IDP-On-Image and Run-BDA
\* return for their input: the result of the extraction, which names the
\* document.
InvocationBody(input) == [ file_name |-> input.file_name ]

\* An input of Run-IDP-On-Text that is the body of the acquisition function
\* alone, not merged into the execution's input.
StateInputBodyOnly(d) ==
    IF st[d] = "Run-IDP-On-Text"
    THEN AcquisitionBody(ItemSelector(d))
    ELSE ItemSelector(d)

\* The input of the state document d is in: the item, and for Run-IDP-On-Text
\* the output of the acquisition state (ResultSelector merged, OutputPath
\* $.merged).
StateInput(d) ==
    IF st[d] = "Run-IDP-On-Text"
    THEN JsonMerge(ExecutionInput, AcquisitionBody(ItemSelector(d)))
    ELSE ItemSelector(d)

\* The file name an object carries in its field file_name.
FileNameOf(object) ==
    IF "file_name" \in DOMAIN object THEN object.file_name ELSE NoFileName

\* Parameters of Pass that leave the error out.
PassParametersFileNameOnly == {"file_name"}

\* Parameters of Pass that leave the file name out.
PassParametersErrorOnly == {"error"}

\* The fields the Parameters of Pass take from its input.
PassParameters == {"file_name", "error"}

\* Documents whose iteration has started and has not ended.
InFlight == { d \in Docs : iter[d] = "running" }

\* An admission test that lets one iteration too many start.
PoolHasSlotOffByOne == Cardinality(InFlight) <= MaxConcurrency

\* An admission test that starts an iteration only when no other is running.
PoolHasSlotOneAtATime == InFlight = {}

\* Map.MaxConcurrency: an iteration starts only while fewer than
\* MaxConcurrency are running.
PoolHasSlot == Cardinality(InFlight) < MaxConcurrency

\* Descriptions of attributes: none, one of 3 characters, one of 5.
Descriptions == { << >>, <<"s","u","m">>, <<"t","o","t","a","l">> }

\* An attributes object of n members with different names (numbered) and one
\* description.
DistinctAttributes(n) ==
    [i \in 1..n |-> [name |-> i, description |-> <<"t","o","t","a","l">>]]

\* No answer of the model is looked at.
NoResponse == [object |-> << >>, wrapping |-> "none", text |-> << >>]

\* No answer was parsed.
NotParsed ==
    [ parser |-> "none", error |-> "", errorMessage |-> << >>,
      data |-> <<"null">>, response_text |-> << >>, logged |-> << >> ]

\* The state in which a started execution finds the workflow: the attributes
\* have passed validate_attributes.
InitState(docs, mode, maxFaults) ==
    /\ documents = docs
    /\ parsing_mode = mode
    /\ attributes = DistinctAttributes(1)
    /\ execution = "RUNNING"
    /\ st = [d \in 1..Len(docs) |-> "Pending"]
    /\ iter = [d \in 1..Len(docs) |-> "none"]
    /\ retries = [d \in 1..Len(docs) |-> <<0, 0>>]
    /\ execs = [d \in 1..Len(docs) |-> [s \in TaskStates |-> 0]]
    /\ output = [d \in 1..Len(docs) |-> NoOutput]
    /\ mapOutput = << >>
    /\ budget = maxFaults
    /\ lastWait = [d \in 1..Len(docs) |-> 0]
    /\ raisedAt = [d \in 1..Len(docs) |-> 0]
    /\ response = NoResponse
    /\ extracted_data = NotParsed
    /\ PromptIdle
    /\ invocation = NoInvocation

\* The batches of Spec. The Map state treats the documents of a batch alike,
\* so a batch is taken with its file names in the order of FileNames: a batch
\* in another order is one of these with the documents renumbered.
Batches ==
    { [d \in 1..NumDocs |-> FileNames[pick[d]]] :
        pick \in { p \in [1..NumDocs -> 1..Len(FileNames)] :
                     \A i, j \in 1..NumDocs : i < j => p[i] <= p[j] } }

Init ==
    \E docs \in Batches, mode \in ParsingModes :
        InitState(docs, mode, MaxFaults)

\* ---------------------------------------------------------------- actions

\* The error the handler of document d's state raises because of the file
\* alone, "" when there is none.
HandlerError(d) ==
    IF st[d] = "Read-Office-File" THEN ReadOfficeFileError(documents[d]) ELSE ""

\* The task of document d can end with the error: the handler raises it
\* because of the file, or the run has a fault left for it.
Raises(d, error) ==
    /\ error \in TaskErrors(st[d])
    /\ budget > 0 \/ error = HandlerError(d)

\* The faults left after the error: the error of the file is none of them.
BudgetAfter(d, error) ==
    IF error = HandlerError(d) THEN budget ELSE budget - 1

\* The executions of a document's states, once counted no further: 1 for a
\* state that was entered.
Entries(counts) == [s \in TaskStates |-> IF counts[s] > 0 THEN 1 ELSE 0]

\* The Map state starts the iteration of document d: ItemSelector builds the
\* item, the item processor starts at Choice, and Choice hands the item to the
\* Task state it selects.
MapIterationStart(d) ==
    /\ execution = "RUNNING"
    /\ iter[d] = "none"
    /\ PoolHasSlot
    /\ st' = [st EXCEPT ![d] = Choice(ItemSelector(d))]
    /\ iter' = [iter EXCEPT ![d] =
                  IF st'[d] \in TaskStates THEN "running" ELSE "failed"]
    /\ execs' = [execs EXCEPT ![d] =
                  [s \in TaskStates |-> IF s = st'[d] THEN 1 ELSE 0]]
    /\ execution' = IF st'[d] \in TaskStates THEN execution ELSE "FAILED"
    /\ retries' = [retries EXCEPT ![d] = <<0, 0>>]
    /\ UNCHANGED << documents, attributes, parsing_mode, output, mapOutput,
                    budget, lastWait, raisedAt, response, extracted_data,
                    event, prompt, max_tokens, returned, invocation >>

\* The Lambda function of document d's Task state returns, which it does only
\* when the handler raises no error for the file: ResultSelector, then Next
\* (Run-IDP-On-Text, executed for the first time) or End with llm_answer.
TaskSucceed(d) ==
    /\ execution = "RUNNING"
    /\ iter[d] = "running"
    /\ st[d] \in TaskStates
    /\ HandlerError(d) = ""
    /\ LET next == NextState(st[d]) IN
       IF next = "End"
       THEN /\ st' = [st EXCEPT ![d] = "End"]
            /\ iter' = [iter EXCEPT ![d] = "succeeded"]
            /\ output' = [output EXCEPT ![d] =
                             [ keys |-> {"llm_answer"}, error |-> "",
                               file_name |->
                                   FileNameOf(InvocationBody(StateInput(d))) ]]
            /\ retries' = [retries EXCEPT ![d] = <<0, 0>>]
            /\ execs' = [execs EXCEPT ![d] = Entries(execs[d])]
       ELSE /\ st' = [st EXCEPT ![d] = next]
            /\ retries' = [retries EXCEPT ![d] = <<0, 0>>]
            /\ execs' = [execs EXCEPT ![d] = [Entries(execs[d]) EXCEPT ![next] = 1]]
            /\ UNCHANGED << iter, output >>
    /\ lastWait' = [lastWait EXCEPT ![d] = 0]
    /\ raisedAt' = [raisedAt EXCEPT ![d] = 0]
    /\ UNCHANGED << documents, attributes, parsing_mode, execution, mapOutput,
                    budget, response, extracted_data, event, prompt,
                    max_tokens, returned, invocation >>

\* Whether the error is retried: a retrier matches it and has retries left.
CanRetry(d, error) ==
    LET r == FirstMatch(Retry(st[d]), error) IN
    r # 0 /\ retries[d][r] < Retry(st[d])[r].MaxAttempts

\* The task of document d fails with an error its Retry field retries: the
\* matching retrier counts one retry and, after one of the delays of that
\* retry, the state is executed again.
TaskRetry(d, error) ==
    /\ execution = "RUNNING"
    /\ iter[d] = "running"
    /\ st[d] \in TaskStates
    /\ Raises(d, error)
    /\ CanRetry(d, error)
    /\ LET r == FirstMatch(Retry(st[d]), error) IN
       /\ retries' = [retries EXCEPT ![d][r] = @ + 1]
       /\ \E wait \in RetryDelays(Retry(st[d])[r], retries[d][r] + 1) :
              lastWait' = [lastWait EXCEPT ![d] = wait]
    /\ execs' = [execs EXCEPT ![d][st[d]] = @ + 1]
    /\ raisedAt' = [raisedAt EXCEPT ![d] = RaisingStep(st[d], error)]
    /\ budget' = BudgetAfter(d, error)
    /\ UNCHANGED << documents, attributes, parsing_mode, execution, st, iter,
                    output, mapOutput, response, extracted_data, event, prompt,
                    max_tokens, returned, invocation >>

\* The task fails with an error that is not retried (no retrier matches it, or
\* the matching one is exhausted) and a catcher matches it: the error goes to
\* $.error and the iteration moves to the catcher's Next.
TaskCatch(d, error) ==
    /\ execution = "RUNNING"
    /\ iter[d] = "running"
    /\ st[d] \in TaskStates
    /\ Raises(d, error)
    /\ ~CanRetry(d, error)
    /\ FirstMatch(Catch(st[d]), error) # 0
    /\ st' = [st EXCEPT ![d] = Catch(st[d])[FirstMatch(Catch(st[d]), error)].Next]
    /\ output' = [output EXCEPT ![d] =
                     [ keys |-> DOMAIN StateInput(d) \cup {"error"},
                       error |-> error,
                       file_name |-> FileNameOf(StateInput(d)) ]]
    /\ budget' = BudgetAfter(d, error)
    /\ lastWait' = [lastWait EXCEPT ![d] = 0]
    /\ raisedAt' = [raisedAt EXCEPT ![d] = 0]
    /\ UNCHANGED << documents, attributes, parsing_mode, execution, iter,
                    retries, execs, mapOutput, response, extracted_data, event,
                    prompt, max_tokens, returned, invocation >>

\* The task fails with an error that is neither retried nor caught: the
\* iteration fails with that error and no output, so the Map state fails, the
\* iterations still running are aborted, those not started never start, and
\* the execution fails.
TaskUncaught(d, error) ==
    /\ execution = "RUNNING"
    /\ iter[d] = "running"
    /\ st[d] \in TaskStates
    /\ Raises(d, error)
    /\ ~CanRetry(d, error)
    /\ FirstMatch(Catch(st[d]), error) = 0
    /\ iter' = [e \in Docs |->
                  IF e = d THEN "failed"
                  ELSE IF iter[e] = "running" THEN "aborted" ELSE iter[e]]
    /\ execution' = "FAILED"
    /\ output' = [output EXCEPT ![d] =
                     [keys |-> {}, error |-> error, file_name |-> NoFileName]]
    /\ budget' = BudgetAfter(d, error)
    /\ UNCHANGED << documents, attributes, parsing_mode, st, retries, execs,
                    mapOutput, lastWait, raisedAt, response, extracted_data,
                    event, prompt, max_tokens, returned, invocation >>

\* The Pass state: its output is the fields of its Parameters, taken from its
\* input, and it ends the iteration. A field the input lacks fails the state
\* (States.ParameterPathFailure), and with it the iteration, the Map state and
\* the execution.
Pass(d) ==
    /\ execution = "RUNNING"
    /\ iter[d] = "running"
    /\ st[d] = "Pass"
    /\ IF PassParameters \subseteq output[d].keys
       THEN /\ st' = [st EXCEPT ![d] = "End"]
            /\ iter' = [iter EXCEPT ![d] = "succeeded"]
            /\ output' = [output EXCEPT ![d] =
                             [ keys |-> PassParameters,
                               error |-> output[d].error,
                               file_name |->
                                   IF "file_name" \in PassParameters
                                   THEN output[d].file_name ELSE NoFileName ]]
            /\ UNCHANGED execution
       ELSE /\ iter' = [e \in Docs |->
                          IF e = d THEN "failed"
                          ELSE IF iter[e] = "running" THEN "aborted" ELSE iter[e]]
            /\ execution' = "FAILED"
            /\ output' = [output EXCEPT ![d] =
                             [ keys |-> {},
                               error |-> "States.ParameterPathFailure",
                               file_name |-> NoFileName ]]
            /\ UNCHANGED st
    /\ retries' = [retries EXCEPT ![d] = <<0, 0>>]
    /\ lastWait' = [lastWait EXCEPT ![d] = 0]
    /\ execs' = [execs EXCEPT ![d] = Entries(execs[d])]
    /\ UNCHANGED << documents, attributes, parsing_mode, mapOutput, budget,
                    raisedAt, response, extracted_data, event, prompt,
                    max_tokens, returned, invocation >>

\* Every iteration has ended: the Map state ends (End: true) with the array of
\* the iterations' outputs, in the order of the documents.
MapEnd ==
    /\ execution = "RUNNING"
    /\ \A d \in Docs : iter[d] = "succeeded"
    /\ execution' = "SUCCEEDED"
    /\ mapOutput' = [d \in Docs |-> output[d]]
    /\ UNCHANGED << documents, attributes, parsing_mode, st, iter, retries,
                    execs, output, budget, lastWait, raisedAt, response,
                    extracted_data, event, prompt, max_tokens, returned,
                    invocation >>

Next ==
    \/ \E d \in Docs : MapIterationStart(d)
    \/ \E d \in Docs : TaskSucceed(d)
    \/ \E d \in Docs, error \in ErrorNames : TaskRetry(d, error)
    \/ \E d \in Docs, error \in ErrorNames : TaskCatch(d, error)
    \/ \E d \in Docs, error \in ErrorNames : TaskUncaught(d, error)
    \/ \E d \in Docs : Pass(d)
    \/ MapEnd

Spec == Init /\ [][Next]_vars

\* ---------------------------------------------- one document at a time

\* File names of the one-document batches of SpecDoc: image and PDF, office,
\* plain text, a name without "/", and upper-case extensions.
DocFileNames ==
    { FileNames[i] : i \in 1..Len(FileNames) } \cup
    { <<"d","/","a",".","t","x","t">>,
      <<"d","/","a",".","p","n","g">>,
      <<"d","/","a",".","c","s","v">>,
      <<"a",".","p","d","f">>,
      <<"a",".","d","o","c","x">>,
      <<"d","/","a",".","P","D","F">>,
      <<"d","/","a",".","D","O","C","X">> }

InitDoc ==
    \E name \in DocFileNames, mode \in ParsingModes :
        InitState(<< name >>, mode, MaxFaultsDoc)

SpecDoc == InitDoc /\ [][Next]_vars

\* ------------------------------------------------- calls that hang

\* The execution has run for the timeout of the state machine while a call is
\* in flight: it ends as timed out, with no output, and the iterations still
\* running are aborted.
ExecutionTimeout ==
    /\ execution = "RUNNING"
    /\ \E d \in Docs : iter[d] = "running" /\ st[d] \in TaskStates
    /\ execution' = "TIMED_OUT"
    /\ iter' = [d \in Docs |-> IF iter[d] = "running" THEN "aborted" ELSE iter[d]]
    /\ UNCHANGED << documents, attributes, parsing_mode, st, retries, execs,
                    output, mapOutput, budget, lastWait, raisedAt, response,
                    extracted_data, event, prompt, max_tokens, returned,
                    invocation >>

InitTimeout ==
    \E docs \in Batches, mode \in ParsingModes :
        InitState(docs, mode, MaxHangs)

\* The steps of a batch whose only faults are calls that hang: no Task state
\* has a TimeoutSeconds, so a call that hangs lasts until the function's own
\* timeout ends the invocation with an error, or until the timeout of the
\* state machine ends the execution.
NextTimeout ==
    \/ \E d \in Docs : MapIterationStart(d)
    \/ \E d \in Docs : TaskSucceed(d)
    \/ \E d \in Docs, error \in TimeoutErrors : TaskRetry(d, error)
    \/ \E d \in Docs, error \in TimeoutErrors : TaskCatch(d, error)
    \/ \E d \in Docs, error \in TimeoutErrors : TaskUncaught(d, error)
    \/ \E d \in Docs : Pass(d)
    \/ MapEnd
    \/ ExecutionTimeout

SpecTimeout == InitTimeout /\ [][NextTimeout]_vars

\* ------------------------------------- a batch larger than the ceiling

\* A batch of MaxConcurrency + PoolExtra copies of one PDF, parsed by the LLM.
InitPool ==
    InitState([d \in 1..(MaxConcurrency + PoolExtra) |->
                  <<"d","/","a",".","p","d","f">>],
              "Amazon Bedrock LLM", 0)

\* The documents of such a batch are interchangeable, so the iterations are
\* started by index: every other order is one of these with the documents
\* renamed.
MapIterationStartByIndex(d) ==
    /\ \A e \in Docs : e < d => iter[e] # "none"
    /\ MapIterationStart(d)

\* The steps of a batch of InitPool, whose tasks raise no error.
NextPool ==
    \/ \E d \in Docs : MapIterationStartByIndex(d)
    \/ \E d \in Docs : TaskSucceed(d)
    \/ MapEnd

SpecPool == InitPool /\ [][NextPool]_vars

\* ------------------------------------------------ a request is submitted

\* The attributes objects of the requests of SpecSubmit: every object of at
\* most MaxListed members with names 1..MaxListed and the descriptions of
\* Descriptions (the empty object, repeated names and short descriptions
\* included), and the objects of MaxAttributesAllowed members with different
\* names and of one member more.
SubmittedAttributes ==
    UNION { [1..n -> [name : 1..MaxListed, description : Descriptions]] :
              n \in 0..MaxListed }
    \cup { DistinctAttributes(MaxAttributesAllowed),
           DistinctAttributes(MaxAttributesAllowed + 1) }

\* A request with two PDF documents waits to be started.
InitSubmit ==
    /\ documents = << FileNames[1], FileNames[1] >>
    /\ parsing_mode \in ParsingModes
    /\ attributes \in SubmittedAttributes
    /\ execution = "SUBMITTED"
    /\ st = [d \in 1..2 |-> "Pending"]
    /\ iter = [d \in 1..2 |-> "none"]
    /\ retries = [d \in 1..2 |-> <<0, 0>>]
    /\ execs = [d \in 1..2 |-> [s \in TaskStates |-> 0]]
    /\ output = [d \in 1..2 |-> NoOutput]
    /\ mapOutput = << >>
    /\ budget = 0
    /\ lastWait = [d \in 1..2 |-> 0]
    /\ raisedAt = [d \in 1..2 |-> 0]
    /\ response = NoResponse
    /\ extracted_data = NotParsed
    /\ PromptIdle
    /\ invocation = NoInvocation

\* The job is started: the attributes are validated before the execution of
\* the workflow is started, and a ValueError of validate_attributes rejects
\* the request.
StartJob ==
    /\ execution = "SUBMITTED"
    /\ execution' = IF validate_attributes(JsonLoads(attributes)) = "ok"
                    THEN "RUNNING" ELSE "REJECTED"
    /\ UNCHANGED << documents, attributes, parsing_mode, st, iter, retries,
                    execs, output, mapOutput, budget, lastWait, raisedAt,
                    response, extracted_data, event, prompt, max_tokens,
                    returned, invocation >>

\* The steps of a request of InitSubmit, whose tasks raise no error.
NextSubmit ==
    \/ StartJob
    \/ \E d \in Docs : MapIterationStart(d)
    \/ \E d \in Docs : TaskSucceed(d)
    \/ MapEnd

SpecSubmit == InitSubmit /\ [][NextSubmit]_vars

\* ------------------------------------------- an answer of the model is parsed

\* Names of attributes, and of keys of the objects the model answers with.
KeyNames == << <<"a">>, <<"b">>, <<"c">>, <<"d">> >>

\* The values the model gives an attribute: a number, a string, null, and a
\* list of one string.
AnswerValues ==
    { <<"number", <<"1","2","5">>>>, <<"string", <<"x">>>>, <<"null">>,
      <<"array", << <<"string", <<"y">>>> >> >> }

\* The objects the model answers with: every object whose keys are among the
\* first MaxKeys names, the empty object included.
AnswerObjects ==
    UNION { [keys -> AnswerValues] :
              keys \in SUBSET { KeyNames[i] : i \in 1..MaxKeys } }

\* json.dumps of a value that is no object.
RECURSIVE DumpsValue(_)
DumpsValue(v) ==
    IF v[1] = "null" THEN <<"n","u","l","l">>
    ELSE IF v[1] = "number" THEN v[2]
    ELSE IF v[1] = "string" THEN <<"\"">> \o v[2] \o <<"\"">>
    ELSE LET RECURSIVE Items(_)
             Items(i) ==
                 IF i > Len(v[2]) THEN << >>
                 ELSE (IF i > 1 THEN <<",", " ">> ELSE << >>)
                      \o DumpsValue(v[2][i]) \o Items(i + 1)
         IN <<"[">> \o Items(1) \o <<"]">>

\* json.dumps of an object: its members in the order of KeyNames.
Dumps(object) ==
    LET RECURSIVE Members(_, _)
        Members(i, first) ==
            IF i > Len(KeyNames) THEN << >>
            ELSE IF KeyNames[i] \notin DOMAIN object
            THEN Members(i + 1, first)
            ELSE (IF first THEN << >> ELSE <<",", " ">>)
                 \o <<"\"">> \o KeyNames[i] \o <<"\"", ":", " ">>
                 \o DumpsValue(object[KeyNames[i]])
                 \o Members(i + 1, FALSE)
    IN <<"{">> \o Members(1, TRUE) \o <<"}">>

\* The texts the model puts around the JSON of its answer.
Wrappings ==
    { "bare", "json fence", "json fence in prose", "plain fence",
      "reasoning block", "prose", "two blocks", "open fence" }

\* The answer whose JSON is json with the text of a wrapping around it.
Wrap(wrapping, json) ==
    LET b == "backtick"
        hi == <<"H","i",":","\n">>
        bye == <<"\n","b","y","e">>
    IN CASE wrapping = "bare" -> json
         [] wrapping = "json fence" ->
              JsonFence \o <<"\n">> \o json \o <<"\n">> \o Fence
         [] wrapping = "json fence in prose" ->
              hi \o JsonFence \o <<"\n">> \o json \o <<"\n">> \o Fence \o bye
         [] wrapping = "plain fence" ->
              Fence \o <<"\n">> \o json \o <<"\n">> \o Fence
         [] wrapping = "reasoning block" ->
              <<"<","t","h","i","n","k","i","n","g",">","o","k",
                "<","/","t","h","i","n","k","i","n","g",">","\n",
                "<","j","s","o","n",">">> \o json
              \o <<"<","/","j","s","o","n",">">>
         [] wrapping = "prose" -> hi \o json \o bye
         [] wrapping = "two blocks" ->
              JsonFence \o <<"\n">> \o json \o <<"\n">> \o Fence
              \o <<"\n">> \o Fence \o <<"s","h">> \o Fence
         [] wrapping = "open fence" -> JsonFence \o <<"\n">> \o json

\* The types of attributes: the one the demo gives its attributes, and list.
AttributeTypes == { "character", "list" }

\* The attributes of the requests of SpecParse: one attribute of either type,
\* and two attributes.
RequestedAttributes ==
    { << [name |-> KeyNames[1], description |-> <<"t","o","t","a","l">>,
          type |-> t] >> : t \in AttributeTypes }
    \cup { << [name |-> KeyNames[1], description |-> <<"t","o","t","a","l">>,
               type |-> "list"],
              [name |-> KeyNames[2], description |-> <<"t","o","t","a","l">>,
               type |-> "character"] >> }

\* The model has answered the prompt of a document: no workflow runs, and the
\* answer is an object of AnswerObjects in a wrapping of Wrappings.
InitParse ==
    /\ documents = << >>
    /\ parsing_mode \in { "Amazon Bedrock LLM" }
    /\ attributes \in RequestedAttributes
    /\ execution = "RUNNING"
    /\ st = << >>
    /\ iter = << >>
    /\ retries = << >>
    /\ execs = << >>
    /\ output = << >>
    /\ mapOutput = << >>
    /\ budget = 0
    /\ lastWait = << >>
    /\ raisedAt = << >>
    /\ \E object \in AnswerObjects, wrapping \in Wrappings :
           response = [object |-> object, wrapping |-> wrapping,
                       text |-> Wrap(wrapping, Dumps(object))]
    /\ extracted_data = NotParsed
    /\ PromptIdle
    /\ invocation = NoInvocation

\* run_idp_on_text's lambda_handler parses the answer with parse_response.
ParseResponse ==
    /\ extracted_data = NotParsed
    /\ response # NoResponse
    /\ extracted_data' =
           [ parser |-> "parse_response" ] @@ parse_response(response.text)
    /\ UNCHANGED << documents, attributes, parsing_mode, execution, st, iter,
                    retries, execs, output, mapOutput, budget, lastWait,
                    raisedAt, response, event, prompt, max_tokens, returned,
                    invocation >>

\* The answer is parsed with parse_ai_response.
ParseAIResponse ==
    /\ extracted_data = NotParsed
    /\ response # NoResponse
    /\ extracted_data' =
           [ parser |-> "parse_ai_response" ]
           @@ parse_ai_response(response.text)
    /\ UNCHANGED << documents, attributes, parsing_mode, execution, st, iter,
                    retries, execs, output, mapOutput, budget, lastWait,
                    raisedAt, response, event, prompt, max_tokens, returned,
                    invocation >>

NextParse ==
    \/ ParseResponse
    \/ ParseAIResponse

SpecParse == InitParse /\ [][NextParse]_vars

\* ------------------------------------------------ the prompt and its length

\* The text of a document of n characters: the character at a place tells
\* the place up to the length of TextLetters.
TextLetters == <<"i","n","v","o","c","e","s">>
DocumentText(n) ==
    [i \in 1..n |-> TextLetters[((i - 1) % Len(TextLetters)) + 1]]

\* The few-shot examples of the events: the i-th has its own input and an
\* object with its own number as the output.
ExampleDigits == <<"1","2">>
Example(i) ==
    [ input |-> <<"e","x"," ">> \o << ExampleDigits[i] >>,
      output |-> [k \in { KeyNames[1] } |-> <<"number", << ExampleDigits[i] >> >>] ]
FewShots ==
    UNION { [1..n -> { Example(i) : i \in DOMAIN ExampleDigits }] :
              n \in 0..MaxExamples }

\* The attributes of the events: a dict of one member or of two, and the two
\* in either order.
EventAttribute(i) ==
    [ name |-> KeyNames[i],
      description |-> IF i = 1 THEN <<"t","o","t","a","l">>
                      ELSE <<"o","t","h","e","r">>,
      type |-> "character" ]
EventAttributes ==
    { << EventAttribute(1) >>,
      << EventAttribute(1), EventAttribute(2) >>,
      << EventAttribute(2), EventAttribute(1) >> }

\* json.dumps(object, indent=2) of a value that is no object, level levels
\* deep: the items of an array stand on lines of their own.
RECURSIVE DumpsIndentValue(_, _)
DumpsIndentValue(v, level) ==
    LET Indent(n) == [i \in 1..(2 * n) |-> " "]
        RECURSIVE Items(_)
        Items(i) ==
            IF i > Len(v[2]) THEN << >>
            ELSE (IF i > 1 THEN <<",">> ELSE << >>)
                 \o <<"\n">> \o Indent(level + 1)
                 \o DumpsIndentValue(v[2][i], level + 1) \o Items(i + 1)
    IN IF v[1] # "array" THEN DumpsValue(v)
       ELSE IF v[2] = << >> THEN <<"[", "]">>
       ELSE <<"[">> \o Items(1) \o <<"\n">> \o Indent(level) \o <<"]">>

\* json.dumps(object, indent=2): a member on each line.
DumpsIndent(object) ==
    LET RECURSIVE Members(_, _)
        Members(i, first) ==
            IF i > Len(KeyNames) THEN << >>
            ELSE IF KeyNames[i] \notin DOMAIN object
            THEN Members(i + 1, first)
            ELSE (IF first THEN << >> ELSE <<",">>)
                 \o <<"\n", " ", " ", "\"">> \o KeyNames[i] \o <<"\"", ":", " ">>
                 \o DumpsIndentValue(object[KeyNames[i]], 1)
                 \o Members(i + 1, FALSE)
    IN IF DOMAIN object = {} THEN <<"{", "}">>
       ELSE <<"{">> \o Members(1, TRUE) \o <<"\n", "}">>

\* A part of a prompt: what it is and the text the builder's inputs gave it.
\* The parts that are literals of the builder (the system prompt, the
\* headings, the closing line) have no such text.
Block(kind, content) == [block |-> kind, content |-> content]

\* attr_descriptions: a line "- key: description" for each item of the dict,
\* in the order of the dict.
AttributeLines(attrs) ==
    [i \in DOMAIN attrs |->
        Block("attribute",
              <<"-", " ">> \o attrs[i].name \o <<":", " ">>
              \o attrs[i].description)]

\* examples_section: empty without examples; else the heading and, for each
\* example in its order, its input after label and the dump of its output.
RECURSIVE ExampleBlocks(_, _, _)
ExampleBlocks(few_shot, label, dumps) ==
    IF few_shot = << >> THEN << >>
    ELSE << Block("example input", label \o Head(few_shot).input),
            Block("example output",
                  <<"O","u","t","p","u","t",":"," ">>
                  \o (IF dumps = "indent" THEN DumpsIndent(Head(few_shot).output)
                      ELSE Dumps(Head(few_shot).output))) >>
         \o ExampleBlocks(Tail(few_shot), label, dumps)
ExamplesSection(few_shot, label, dumps) ==
    IF few_shot = << >> THEN << >>
    ELSE << Block("examples heading", << >>) >>
         \o ExampleBlocks(few_shot, label, dumps)

\* A builder that puts the examples after the text of the document.
build_extraction_promptExamplesLast(text, attrs, few_shot) ==
    << Block("system", << >>), Block("attributes heading", << >>) >>
    \o AttributeLines(attrs)
    \o << Block("document heading", << >>), Block("document", text) >>
    \o ExamplesSection(few_shot, <<"I","n","p","u","t",":"," ">>, "plain")
    \o << Block("output rule", << >>) >>

\* run_idp_on_text's build_extraction_prompt: the f-string of the prompt,
\* part by part.
build_extraction_prompt(text, attrs, few_shot) ==
    << Block("system", << >>), Block("attributes heading", << >>) >>
    \o AttributeLines(attrs)
    \o ExamplesSection(few_shot, <<"I","n","p","u","t",":"," ">>, "plain")
    \o << Block("document heading", << >>), Block("document", text),
          Block("output rule", << >>) >>

\* The guide's build_prompt: as build_extraction_prompt, with the examples
\* labelled Document, their outputs indented, and the text between lines of
\* three quotes.
build_prompt(text, attrs, few_shot_examples) ==
    LET quotes == <<"\"", "\"", "\"">>
    IN << Block("system", << >>), Block("attributes heading", << >>) >>
       \o AttributeLines(attrs)
       \o ExamplesSection(few_shot_examples,
                          <<"D","o","c","u","m","e","n","t",":"," ">>, "indent")
       \o << Block("document heading", << >>),
             Block("document", quotes \o <<"\n">> \o text \o <<"\n">> \o quotes),
             Block("output rule", << >>) >>

\* count_tokens: a token for every four characters.
count_tokens(text) == Len(text) \div 4

\* The marker truncate_text puts after a text it has cut.
TruncationMarker ==
    <<"\n","\n","[",".",".",".","d","o","c","u","m","e","n","t"," ",
      "t","r","u","n","c","a","t","e","d",".",".",".","]">>

\* A truncate_text that keeps the characters of one token more.
truncate_textKeepsMore(text, limit) ==
    LET estimated_tokens == count_tokens(text)
        keep_chars == (Len(text) * (limit + 1)) \div estimated_tokens
    IN IF estimated_tokens <= limit THEN text
       ELSE Slice(text, 0, keep_chars) \o TruncationMarker

\* truncate_text: the text as it is when its estimate is within the limit;
\* else its first keep_chars characters and the marker. keep_ratio is the
\* quotient limit / estimated_tokens, and int() drops the fraction of the
\* product.
truncate_text(text, limit) ==
    LET estimated_tokens == count_tokens(text)
        keep_chars == (Len(text) * limit) \div estimated_tokens
    IN IF estimated_tokens <= limit THEN text
       ELSE Slice(text, 0, keep_chars) \o TruncationMarker

\* A function is invoked for a document: no workflow runs; the event holds
\* the text of the document, the examples and the instructions of the
\* request, and the text has a token limit.
InitPrompt ==
    /\ documents = << >>
    /\ parsing_mode \in { "Amazon Bedrock LLM" }
    /\ attributes \in EventAttributes
    /\ execution = "RUNNING"
    /\ st = << >>
    /\ iter = << >>
    /\ retries = << >>
    /\ execs = << >>
    /\ output = << >>
    /\ mapOutput = << >>
    /\ budget = 0
    /\ lastWait = << >>
    /\ raisedAt = << >>
    /\ response = NoResponse
    /\ extracted_data = NotParsed
    /\ \E n \in 0..MaxTextLen, few_shot \in FewShots,
          instr \in { << >>, instructions } :
           event = [ text |-> DocumentText(n), few_shot_examples |-> few_shot,
                     instructions |-> instr ]
    /\ prompt = NoPrompt
    /\ max_tokens \in 0..MaxTokens
    /\ returned = NotTruncated
    /\ invocation = NoInvocation

\* run_idp_on_text's lambda_handler builds the prompt of the event.
BuildExtractionPrompt ==
    /\ prompt = NoPrompt
    /\ prompt' =
           [ builder |-> "build_extraction_prompt",
             blocks |-> build_extraction_prompt(event.text, attributes,
                                                event.few_shot_examples) ]
    /\ UNCHANGED << documents, attributes, parsing_mode, execution, st, iter,
                    retries, execs, output, mapOutput, budget, lastWait,
                    raisedAt, response, extracted_data, event, max_tokens,
                    returned, invocation >>

\* The guide's handler builds the prompt of the event.
BuildPrompt ==
    /\ prompt = NoPrompt
    /\ prompt' =
           [ builder |-> "build_prompt",
             blocks |-> build_prompt(event.text, attributes,
                                     event.few_shot_examples) ]
    /\ UNCHANGED << documents, attributes, parsing_mode, execution, st, iter,
                    retries, execs, output, mapOutput, budget, lastWait,
                    raisedAt, response, extracted_data, event, max_tokens,
                    returned, invocation >>

\* truncate_text is called with the text of the event and the limit.
TruncateText ==
    /\ ~returned.done
    /\ returned' = [done |-> TRUE, text |-> truncate_text(event.text, max_tokens)]
    /\ UNCHANGED << documents, attributes, parsing_mode, execution, st, iter,
                    retries, execs, output, mapOutput, budget, lastWait,
                    raisedAt, response, extracted_data, event, prompt,
                    max_tokens, invocation >>

NextPrompt ==
    \/ BuildExtractionPrompt
    \/ BuildPrompt
    \/ TruncateText

SpecPrompt == InitPrompt /\ [][NextPrompt]_vars

\* ------------------------------------------------ the model is invoked

\* The model ids of the invocations: ids of config-example.yml (an enabled
\* Anthropic, Amazon, DeepSeek and Mistral model, and a Llama model of the
\* list) and the default id of the handler.
ModelIds ==
    { <<"u","s",".","a","n","t","h","r","o","p","i","c",".","c","l","a","u",
        "d","e","-","3","-","h","a","i","k","u","-","2","0","2","4","0","3",
        "0","7","-","v","1",":","0">>,
      <<"u","s",".","a","m","a","z","o","n",".","n","o","v","a","-","p","r",
        "o","-","v","1",":","0">>,
      <<"u","s",".","d","e","e","p","s","e","e","k",".","r","1","-","v","1",
        ":","0">>,
      <<"u","s",".","m","i","s","t","r","a","l",".","p","i","x","t","r","a",
        "l","-","l","a","r","g","e","-","2","5","0","2","-","v","1",":","0">>,
      <<"u","s",".","m","e","t","a",".","l","l","a","m","a","3","-","2","-",
        "1","b","-","i","n","s","t","r","u","c","t","-","v","1",":","0">>,
      <<"a","n","t","h","r","o","p","i","c",".","c","l","a","u","d","e","-",
        "v","2">> }

\* The functions that call the model.
InvokeFunctions == { "invoke_bedrock_model", "invoke_bedrock" }

\* sub in s.
In(sub, s) == Find(s, sub) # -1

\* The mark of a Llama model in the id: "meta.llama" for run_idp_on_text's
\* function, "llama" for the guide's.
LlamaMark(function) ==
    IF function = "invoke_bedrock_model"
    THEN <<"m","e","t","a",".","l","l","a","m","a">>
    ELSE <<"l","l","a","m","a">>

\* The if/elif that builds the request body: the format of the body, "none"
\* when no branch assigns it.
RequestBody(function, model_id) ==
    IF In(<<"a","n","t","h","r","o","p","i","c">>, model_id) THEN "anthropic"
    ELSE IF In(LlamaMark(function), model_id) THEN "llama"
    ELSE "none"

\* The if/elif that reads the answer: the format the text is taken from,
\* "none" when no branch returns.
ResponseFormat(function, model_id) ==
    IF In(<<"a","n","t","h","r","o","p","i","c">>, model_id) THEN "anthropic"
    ELSE IF In(LlamaMark(function), model_id) THEN "llama"
    ELSE "none"

\* The text of the answers of the endpoint.
GeneratedText == <<"{", "}">>

\* A function is called with a model id and the prompt of a document.
InitInvoke ==
    /\ documents = << >>
    /\ parsing_mode \in { "Amazon Bedrock LLM" }
    /\ attributes = << EventAttribute(1) >>
    /\ execution = "RUNNING"
    /\ st = << >>
    /\ iter = << >>
    /\ retries = << >>
    /\ execs = << >>
    /\ output = << >>
    /\ mapOutput = << >>
    /\ budget = 0
    /\ lastWait = << >>
    /\ raisedAt = << >>
    /\ response = NoResponse
    /\ extracted_data = NotParsed
    /\ PromptIdle
    /\ \E function \in InvokeFunctions, model_id \in ModelIds,
          n \in 0..MaxTextLen :
           invocation =
               [ NoInvocation EXCEPT !.function = function,
                                     !.model_id = model_id,
                                     !.prompt = DocumentText(n),
                                     !.pc = "called" ]

\* The request body is built; json.dumps(body) raises UnboundLocalError when
\* no branch has assigned the body, before invoke_model is called.
BuildRequestBody ==
    /\ invocation.pc = "called"
    /\ LET body == RequestBody(invocation.function, invocation.model_id)
       IN invocation' =
              IF body = "none"
              THEN [ invocation EXCEPT !.pc = "raised",
                                       !.error = "UnboundLocalError" ]
              ELSE [ invocation EXCEPT !.pc = "built", !.body = body ]
    /\ UNCHANGED << documents, attributes, parsing_mode, execution, st, iter,
                    retries, execs, output, mapOutput, budget, lastWait,
                    raisedAt, response, extracted_data, event, prompt,
                    max_tokens, returned >>

\* bedrock.invoke_model is called with the model id and the body.
InvokeModel ==
    /\ invocation.pc = "built"
    /\ invocation' = [ invocation EXCEPT !.pc = "invoked",
                                         !.sent = invocation.body ]
    /\ UNCHANGED << documents, attributes, parsing_mode, execution, st, iter,
                    retries, execs, output, mapOutput, budget, lastWait,
                    raisedAt, response, extracted_data, event, prompt,
                    max_tokens, returned >>

\* The text is read from the answer of the endpoint; the function returns
\* None when no branch returns.
ReadResponseBody ==
    /\ invocation.pc = "invoked"
    /\ LET format == ResponseFormat(invocation.function, invocation.model_id)
       IN invocation' =
              [ invocation EXCEPT
                  !.pc = "returned",
                  !.read = format,
                  !.text = IF format = "none" THEN << >> ELSE GeneratedText ]
    /\ UNCHANGED << documents, attributes, parsing_mode, execution, st, iter,
                    retries, execs, output, mapOutput, budget, lastWait,
                    raisedAt, response, extracted_data, event, prompt,
                    max_tokens, returned >>

NextInvoke ==
    \/ BuildRequestBody
    \/ InvokeModel
    \/ ReadResponseBody

SpecInvoke == InitInvoke /\ [][NextInvoke]_vars

\* ------------------------------------------------ the claims' vocabulary

\* The document's iteration ended with the model's answer.
Completed(d) == st[d] = "End" /\ "llm_answer" \in output[d].keys

\* The document's iteration ended with an error as its result.
Failed(d) == st[d] = "End" /\ "error" \in output[d].keys

\* The document's iteration failed: it has no result.
IterationFailed(d) == iter[d] = "failed"

\* The states of S that document d has entered.
Entered(d, S) == { s \in S : execs[d][s] > 0 }

\* The execution of state s for document d was ended by an error: the error
\* failed the iteration, or a catcher took it to Pass.
EndedByError(d, s) ==
    /\ execs[d][s] > 0
    /\ output[d].error # ""
    /\ \/ IterationFailed(d) /\ st[d] = s
       \/ st[d] \in {"Pass", "End"} /\ NextState(s) = "End"
       \/ st[d] \in {"Pass", "End"} /\ execs[d][NextState(s)] = 0

\* As EndedByError, seen before the retry counts of s are gone.
JustEndedByError(d, s) ==
    EndedByError(d, s) /\ (st[d] = "Pass" \/ IterationFailed(d))

\* The file name is <prefix>/<name>.<ext> with ext one of exts, compared
\* character by character.
HasPathExtension(name, exts) ==
    \E ext \in exts :
        /\ Len(name) > Len(ext)
        /\ SubSeq(name, Len(name) - Len(ext), Len(name)) = <<".">> \o ext
        /\ \E i \in 1..(Len(name) - Len(ext) - 1) : name[i] = "/"

\* ------------------------------------------------------------- the claims

\* C1 (as claimed): a fault that ends the acquisition state of a document
\* (Extract-text, Read-Office-File) ends only that document: its iteration does
\* not fail but ends with an error result, the execution does not fail, and no
\* sibling document is aborted.
C1_AcquisitionFaultIsolated ==
    \A d \in Docs, s \in AcquisitionStates :
        EndedByError(d, s) =>
            /\ ~IterationFailed(d)
            /\ execution # "FAILED"
            /\ \A e \in Docs : iter[e] # "aborted"

C3_AllTerminalWhenBatchReturns ==
    execution # "RUNNING" =>
        \A d \in Docs : Completed(d) \/ Failed(d) \/ IterationFailed(d)

\* C4 (as claimed): an invocation state that is ended by a permanent error,
\* having met no service error, was executed exactly once.
C4_PermanentFaultNotRetried ==
    \A d \in Docs, s \in InvocationStates :
        ( /\ JustEndedByError(d, s)
          /\ output[d].error \in PermanentErrors
          /\ retries[d][1] = 0 )
        => execs[d][s] = 1

\* C4 (amended): an invocation state that is ended by a permanent error was
\* retried three times by its States.TaskFailed retrier before the error was
\* caught: it was executed four times, plus once per service error retried.
C4_PermanentFaultRetried ==
    \A d \in Docs, s \in InvocationStates :
        (JustEndedByError(d, s) /\ output[d].error \in PermanentErrors)
        => /\ retries[d][2] = 3
           /\ execs[d][s] = 4 + retries[d][1]
           /\ st[d] = "Pass"

\* C4's case: Run-IDP-On-Text ended by a JSON-decode error after four
\* executions.
C4_Witness ==
    \E d \in Docs :
        /\ JustEndedByError(d, "Run-IDP-On-Text")
        /\ output[d].error = "JSONDecodeError"
        /\ execs[d]["Run-IDP-On-Text"] = 4

\* The execution of s for d was ended by a service error and met no other
\* error.
EndedByTransientOnly(d, s) ==
    /\ JustEndedByError(d, s)
    /\ output[d].error \in LambdaServiceErrors
    /\ retries[d][2] = 0

\* C5 (as claimed): an acquisition or invocation state that fails with a
\* service error on every attempt is executed exactly 3 times.
C5_ThreeExecutions ==
    \A d \in Docs, s \in AcquisitionStates \cup InvocationStates :
        EndedByTransientOnly(d, s) => execs[d][s] = 3

\* C5 (amended): an acquisition or invocation state that fails with a service
\* error on every attempt is executed exactly 4 times (the first attempt and 3
\* retries), and while it has met service errors only it is never executed a
\* 5th time.
C5_FourExecutions ==
    /\ \A d \in Docs, s \in AcquisitionStates \cup InvocationStates :
           EndedByTransientOnly(d, s) => execs[d][s] = 4
    /\ \A d \in Docs :
           (st[d] \in AcquisitionStates \cup InvocationStates
               /\ retries[d][2] = 0)
           => execs[d][st[d]] <= 4

\* C5's case: Extract-text, or Run-IDP-On-Image, ended by a service error after
\* four executions.
C5_Witness ==
    \E d \in Docs, s \in {"Extract-text", "Run-IDP-On-Image"} :
        EndedByTransientOnly(d, s) /\ execs[d][s] = 4

\* The document's file name is <prefix>/<name>.<office extension> and the
\* parsing mode is the automation one.
OfficeAndAutomation(d) ==
    /\ HasPathExtension(documents[d], OfficeExtensions)
    /\ parsing_mode = "Bedrock Data Automation"

\* C6 (as claimed): a started document with an office file name and the
\* automation parsing mode is in Run-BDA and never entered Read-Office-File.
C6_AutomationWins ==
    \A d \in Docs :
        (OfficeAndAutomation(d) /\ iter[d] # "none")
        => Entered(d, Strategies) = {"Run-BDA"}

\* C6 (amended): a started document with an office file name and the
\* automation parsing mode entered Read-Office-File and never Run-BDA.
C6_OfficeWins ==
    \A d \in Docs :
        (OfficeAndAutomation(d) /\ iter[d] # "none")
        => Entered(d, Strategies) = {"Read-Office-File"}

\* C6's case: such a document, in Read-Office-File.
C6_Witness ==
    \E d \in Docs : OfficeAndAutomation(d) /\ st[d] = "Read-Office-File"

\* C7: every started document has entered exactly one of the four strategies.
C7_ExactlyOneStrategy ==
    \A d \in Docs :
        iter[d] # "none" => Cardinality(Entered(d, Strategies)) = 1

\* C7's case: a document no rule matches (no "/" in its name), routed by
\* Default.
C7_Witness ==
    \E d \in Docs :
        /\ ~HasPathExtension(documents[d], ImageExtensions \cup OfficeExtensions)
        /\ parsing_mode = "Amazon Textract"
        /\ st[d] = "Extract-text"

\* The document's file name is <prefix>/<name>.<image or PDF extension> and
\* the parsing mode is the LLM one.
ImageAndVision(d) ==
    /\ HasPathExtension(documents[d], ImageExtensions)
    /\ parsing_mode = "Amazon Bedrock LLM"

InFlightDocs ==
    { d \in Docs : /\ st[d] \in TaskStates \cup {"Pass"}
                   /\ iter[d] \notin {"failed", "aborted"} }

CatchStep(d) == st[d] \in TaskStates /\ st'[d] = "Pass"

RetryPolicy(state, error) ==
    LET r == FirstMatch(Retry(state), error) IN
    IF r = 0
    THEN [ MaxAttempts |-> 0, IntervalSeconds |-> 0, BackoffRate |-> 0,
           JitterStrategy |-> "NONE" ]
    ELSE [ MaxAttempts |-> Retry(state)[r].MaxAttempts,
           IntervalSeconds |-> Retry(state)[r].IntervalSeconds,
           BackoffRate |-> Retry(state)[r].BackoffRate,
           JitterStrategy |-> Retry(state)[r].JitterStrategy ]

\* C12 (as claimed): for every error a task can end with, the acquisition
\* state a document is in has the retry policy of the invocation states
\* (Run-IDP-On-Text, Run-IDP-On-Image, Run-BDA): the same errors retried, with
\* the same number of retries, interval, backoff rate and jitter, and the same
\* errors terminal.
C12_SameRetryPolicy ==
    \A d \in Docs :
        st[d] \in AcquisitionStates =>
            \A s \in TaskStates \ AcquisitionStates, error \in ErrorNames :
                RetryPolicy(st[d], error) = RetryPolicy(s, error)

\* The step is a retry of the state document d is in.
RetryStep(d) ==
    /\ st[d] \in TaskStates
    /\ st'[d] = st[d]
    /\ execs'[d][st[d]] = execs[d][st[d]] + 1

\* The retries made of the state document d is in.
RetriesMade(d) == retries[d][1] + retries[d][2]

\* C13 (as claimed): in a state of one document, a retry never waits less than
\* the retry before it.
C13_DelaysNonDecreasing ==
    [][\A d \in Docs :
          (RetryStep(d) /\ RetriesMade(d) > 0) => lastWait'[d] >= lastWait[d]]_vars

\* C13 (amended): the k-th retry of a service error waits 1, 2, 4 seconds (k =
\* 1, 2, 3), at the acquisition and at the invocation states; the k-th retry of
\* any other error, which only the invocation states and Run-BDA make, waits
\* between 0 and 1, 2, 4 seconds; and at the acquisition states a retry never
\* waits less than the retry before it.
C13_DelaysWithinBackoff ==
    [][\A d \in Docs :
          RetryStep(d) =>
              /\ retries'[d][1] = retries[d][1] + 1
                     => lastWait'[d] = <<1, 2, 4>>[retries'[d][1]]
              /\ retries'[d][2] = retries[d][2] + 1
                     => /\ st[d] \notin AcquisitionStates
                        /\ lastWait'[d] \in 0..(<<1, 2, 4>>[retries'[d][2]])
              /\ st[d] \in AcquisitionStates => lastWait'[d] >= lastWait[d]]_vars

\* C13's case: the third retry of a function error at Run-IDP-On-Image has
\* waited 1 second, less than the 2 seconds a second retry can wait.
C13_Witness ==
    \E d \in Docs :
        /\ st[d] = "Run-IDP-On-Image"
        /\ retries[d] = <<0, 3>>
        /\ lastWait[d] = 1

\* C14 (as claimed): when the execution has ended, every document's iteration
\* has reached its end, Completed or Failed, and the Map state's output holds
\* one result per document, the failed ones included: an answer, or the file
\* name and the error.
C14_BatchReturnsEveryResult ==
    execution # "RUNNING" =>
        /\ \A d \in Docs : st[d] = "End" /\ (Completed(d) \/ Failed(d))
        /\ Len(mapOutput) = Len(documents)
        /\ \A d \in Docs :
               mapOutput[d].keys \in { {"llm_answer"}, {"file_name", "error"} }

\* The place of a state in the order Pending, acquisition, invocation (the
\* prompt, the call of the model and the parsing of its answer are steps of the
\* function of one Task state; Run-BDA stands in their place), Pass, End.
StateRank(state) ==
    IF state = "Pending" THEN 0
    ELSE IF state \in AcquisitionStates THEN 1
    ELSE IF state \in TaskStates THEN 2
    ELSE IF state = "Pass" THEN 3
    ELSE 4

\* Once document d is at End, its state, its iteration's status and its result
\* stay as they are.
EndIsFinal(d) ==
    st[d] = "End" =>
        /\ st'[d] = "End"
        /\ iter'[d] = iter[d]
        /\ output'[d] = output[d]

\* C15 (as claimed): a document never moves to an earlier state of the order
\* Pending, acquisition, invocation, End; a retry of a model-invocation state
\* repeats the invocation only, it never takes the document back from the call
\* of the model or from the parsing of the answer to the building of the
\* prompt; and a document at End never changes again.
C15_StagesInOrder ==
    [][\A d \in Docs :
          /\ StateRank(st'[d]) >= StateRank(st[d])
          /\ (RetryStep(d) /\ st[d] \in InvocationStates) => raisedAt'[d] <= 1
          /\ EndIsFinal(d)]_vars

\* C15 (amended): a document never moves to an earlier state of the order
\* Pending, acquisition, invocation, Pass, End, and at End it never changes
\* again; the acquisition states are executed again after a service error
\* only; a model-invocation state is executed again, from the building of the
\* prompt, after a service error and also after an error raised by the call of
\* the model or by the parsing of its answer.
C15_StatesInOrderStagesRepeated ==
    [][\A d \in Docs :
          /\ StateRank(st'[d]) >= StateRank(st[d])
          /\ EndIsFinal(d)
          /\ RetryStep(d) =>
                 /\ retries'[d][1] > retries[d][1] => raisedAt'[d] = 0
                 /\ st[d] \in AcquisitionStates => raisedAt'[d] = 0
                 /\ (st[d] \in InvocationStates /\ retries'[d][2] > retries[d][2])
                        => raisedAt'[d] \in {2, 3}]_vars

\* C15's case: a document that came through Extract-text and is in
\* Run-IDP-On-Text again after parse_response raised.
C15_Witness ==
    \E d \in Docs :
        /\ st[d] = "Run-IDP-On-Text"
        /\ execs[d]["Extract-text"] = 1
        /\ raisedAt[d] = 3

\* The attributes object is written with no member.
NoAttribute == Len(attributes) = 0

\* The attributes object is written with a name more than once.
DuplicateNames ==
    \E i, j \in 1..Len(attributes) :
        i # j /\ attributes[i].name = attributes[j].name

\* The attributes object is written with more members than the maximum.
TooManyAttributes == Len(attributes) > MaxAttributesAllowed

\* No document has left Pending: no iteration has started and no Task state
\* was executed.
NothingDispatched ==
    /\ execution \in {"SUBMITTED", "REJECTED"}
    /\ \A d \in Docs :
           st[d] = "Pending" /\ iter[d] = "none" /\ Entered(d, TaskStates) = {}

Parsed == extracted_data.parser # "none"

\* The parser has returned a value: the result of the document has status ok.
ParsedOk == Parsed /\ extracted_data.error = ""

\* The names of the attributes of the request.
RequestedNames == { attributes[i].name : i \in 1..Len(attributes) }

\* The wrappings a parser takes the JSON out of and json.loads decodes.
Extractable(parser) ==
    { "bare", "json fence", "json fence in prose" }
    \cup (IF parser = "parse_ai_response" THEN { "plain fence" } ELSE {})

\* C18 (as claimed): the keys of the attributes of a result with status ok are
\* the requested names: a requested attribute the model left out is there
\* with null, a key that was not requested is not there.
C18_Completeness ==
    ParsedOk =>
        /\ extracted_data.data[1] = "object"
        /\ DOMAIN extracted_data.data[2] = RequestedNames
        /\ \A name \in RequestedNames \ DOMAIN response.object :
               extracted_data.data[2][name] = <<"null">>

\* C18 (amended): the keys of the attributes of a result with status ok are
\* the keys of the object the model answered with: a requested attribute the
\* model left out is not there, a key that was not requested is kept.
C18_KeysAsAnswered ==
    ParsedOk =>
        /\ extracted_data.data[1] = "object"
        /\ DOMAIN extracted_data.data[2] = DOMAIN response.object

\* C18's case: parse_response returned an object that lacks a requested
\* attribute and has a key that was not requested.
C18_Witness ==
    /\ ParsedOk
    /\ extracted_data.parser = "parse_response"
    /\ RequestedNames \ DOMAIN extracted_data.data[2] # {}
    /\ DOMAIN extracted_data.data[2] \ RequestedNames # {}
    /\ \E key \in DOMAIN response.object :
           response.object[key] = <<"null">>

\* C19 (as claimed): whatever the text around it (a json fence, a reasoning
\* block, prose before and after), the parser returns the object the answer
\* holds.
C19_ParserRoundTrip ==
    Parsed /\ response.wrapping \in { "json fence", "json fence in prose",
                                      "reasoning block", "prose" } =>
        /\ extracted_data.error = ""
        /\ extracted_data.data = <<"object", response.object>>

\* An attribute of type list for which the model answered with a scalar (a
\* string or a number).
ScalarForList(name) ==
    /\ \E i \in 1..Len(attributes) :
           attributes[i].name = name /\ attributes[i].type = "list"
    /\ name \in DOMAIN response.object
    /\ response.object[name][1] \in { "string", "number" }

\* C20 (as claimed): a scalar the model gave for an attribute of type list is
\* in the parsed result as a list of that one value, and the parser does not
\* fail on an answer it can take the JSON out of.
C20_ScalarWrapped ==
    \A name \in RequestedNames :
        Parsed /\ ScalarForList(name) =>
            /\ response.wrapping \in Extractable(extracted_data.parser)
                   => extracted_data.error = ""
            /\ extracted_data.error = ""
                   => extracted_data.data[2][name]
                        = <<"array", << response.object[name] >> >>

\* C20 (amended): a scalar the model gave for an attribute of type list is in
\* the parsed result as the model gave it, not in a list; it is not dropped,
\* and the parser does not fail on an answer it can take the JSON out of.
C20_ScalarKept ==
    \A name \in RequestedNames :
        Parsed /\ ScalarForList(name) =>
            /\ response.wrapping \in Extractable(extracted_data.parser)
                   => extracted_data.error = ""
            /\ extracted_data.error = ""
                   => /\ name \in DOMAIN extracted_data.data[2]
                      /\ extracted_data.data[2][name] = response.object[name]

\* C20's case: parse_response returned the string the model gave for an
\* attribute of type list.
C20_Witness ==
    \E name \in RequestedNames :
        /\ ParsedOk
        /\ extracted_data.parser = "parse_response"
        /\ ScalarForList(name)
        /\ response.object[name][1] = "string"
        /\ extracted_data.data[2][name] = response.object[name]

\* The call of document d hung until the timeout of the function ended it, and
\* the error was not retried.
HungCallEnded(d) == output[d].error \in TimeoutErrors

\* C21 (as claimed): a document whose call hangs ends failed, with an error in
\* its result, and the batch still returns a result for every document: the
\* execution does not end without the results.
C21_HungCallCancelled ==
    /\ \A d \in Docs :
           HungCallEnded(d) /\ st[d] \notin TaskStates \cup {"Pass"} =>
               iter[d] = "succeeded" /\ "error" \in output[d].keys
    /\ (\E d \in Docs : HungCallEnded(d))
           => execution \notin {"FAILED", "TIMED_OUT"}

\* The result of a document is ok: it has the answer and no error.
ResultOk(result) ==
    /\ "llm_answer" \in result.keys
    /\ "error" \notin result.keys
    /\ result.error = ""

\* The result of a document is failed: it has an error and no answer.
ResultFailed(result) ==
    /\ "error" \in result.keys
    /\ result.error # ""
    /\ "llm_answer" \notin result.keys

\* C22: the result of every document whose iteration ended, and every item
\* of the output of the Map state, is ok or failed, not both and not neither.
C22_ResultShape ==
    /\ \A d \in Docs :
           iter[d] = "succeeded" =>
               ResultOk(output[d]) # ResultFailed(output[d])
    /\ \A i \in 1..Len(mapOutput) :
           ResultOk(mapOutput[i]) # ResultFailed(mapOutput[i])

\* C22's case: the Map state has returned an ok result and a failed one.
C22_Witness ==
    /\ execution = "SUCCEEDED"
    /\ \E i, j \in 1..Len(mapOutput) :
           ResultOk(mapOutput[i]) /\ ResultFailed(mapOutput[j])

\* The kinds of errors of the taxonomy.
ErrorKinds ==
    { "acquisition_error", "invocation_error", "parse_error",
      "unsupported_model" }

\* Document d has a failed result.
HasFailedResult(d) == iter[d] = "succeeded" /\ ResultFailed(output[d])

FileKind(name) ==
    IF HasPathExtension(name, ImageExtensions) THEN "image_pdf"
    ELSE IF HasPathExtension(name, OfficeExtensions) THEN "office"
    ELSE "plain_text"

\* The items of the documents of other runs with a file name and a parsing
\* mode: with one or two attributes and with or without instructions.
OtherItems(name, mode) ==
    [ file_name : {name}, parsing_mode : {mode},
      attributes : { JsonLoads(DistinctAttributes(n)) : n \in 1..2 },
      instructions : { << >>, <<"x">> } ]

RequestFields ==
    { "attributes", "model_params", "parsing_mode", "few_shots",
      "instructions" }

DecodeFailed == Parsed /\ extracted_data.error # ""

\* C26 (as claimed): when the parser fails on the answer, the text of the
\* answer is in the message of the error, which is what the failed result of
\* the document carries.
C26_RawTextInError ==
    DecodeFailed =>
        Find(extracted_data.errorMessage, response.text) # -1

\* C26 (amended): when the parser fails on the answer, the error is a
\* JSONDecodeError (from parse_ai_response a ValueError) whose message is the
\* message of the decoder (of the ValueError) and has no text of the answer;
\* the text that was handed to json.loads, a part of the answer, is written
\* to the log.
C26_TextLoggedNotInError ==
    DecodeFailed =>
        /\ extracted_data.parser = "parse_response" =>
               /\ extracted_data.error = "JSONDecodeError"
               /\ extracted_data.errorMessage = DecodeErrorMessage
        /\ extracted_data.parser = "parse_ai_response" =>
               /\ extracted_data.error = "ValueError"
               /\ extracted_data.errorMessage = InvalidJsonMessage
        /\ Find(extracted_data.errorMessage, response.text) = -1
        /\ extracted_data.logged = extracted_data.response_text
        /\ Find(response.text, extracted_data.logged) # -1

\* C26's case: parse_response failed on an answer with two fenced blocks, and
\* logged a text shorter than the answer.
C26_Witness ==
    /\ DecodeFailed
    /\ extracted_data.parser = "parse_response"
    /\ response.wrapping = "two blocks"
    /\ extracted_data.logged # << >>
    /\ Len(extracted_data.logged) < Len(response.text)

\* Document d is on the default route: it has entered Extract-text and no
\* other strategy, it is in Extract-text or past it, and the only other Task
\* state it has entered is Run-IDP-On-Text.
OnDefaultRoute(d) ==
    /\ Entered(d, Strategies) = {"Extract-text"}
    /\ Entered(d, TaskStates) \subseteq {"Extract-text", "Run-IDP-On-Text"}
    /\ st[d] \in {"Extract-text", "Run-IDP-On-Text", "Pass", "End"}

\* When the task of Extract-text succeeds for document d, the document is next
\* in Run-IDP-On-Text.
OcrLeadsToText(d) ==
    st[d] = "Extract-text" /\ st'[d] # "Extract-text" /\ iter'[d] = "running"
        => st'[d] = "Run-IDP-On-Text"

\* C27 (as claimed): an image or PDF with a parsing mode that is neither the
\* LLM's nor the automation's, and a plain-text document with any parsing
\* mode, is on the default route.
C27_DefaultRoute ==
    /\ [](\A d \in Docs :
             /\ iter[d] # "none"
             /\ \/ /\ FileKind(documents[d]) = "image_pdf"
                   /\ parsing_mode \notin
                          {"Amazon Bedrock LLM", "Bedrock Data Automation"}
                \/ FileKind(documents[d]) = "plain_text"
             => OnDefaultRoute(d))
    /\ [][\A d \in Docs : OcrLeadsToText(d)]_vars

\* C27 (amended): an image or PDF with a parsing mode that is neither the
\* LLM's nor the automation's, and a plain-text document with a parsing mode
\* that is not the automation's, is on the default route.
C27_DefaultRouteNotAutomation ==
    /\ [](\A d \in Docs :
             /\ iter[d] # "none"
             /\ parsing_mode # "Bedrock Data Automation"
             /\ \/ /\ FileKind(documents[d]) = "image_pdf"
                   /\ parsing_mode # "Amazon Bedrock LLM"
                \/ FileKind(documents[d]) = "plain_text"
             => OnDefaultRoute(d))
    /\ [][\A d \in Docs : OcrLeadsToText(d)]_vars

\* C27's case: a plain-text document with the LLM's parsing mode is in
\* Run-IDP-On-Text after Extract-text.
C27_Witness ==
    \E d \in Docs :
        /\ documents[d] = <<"d","/","a",".","t","x","t">>
        /\ parsing_mode = "Amazon Bedrock LLM"
        /\ st[d] = "Run-IDP-On-Text"
        /\ Entered(d, TaskStates) = {"Extract-text", "Run-IDP-On-Text"}

\* The contents of the first block of a text that starts with ```json: from
\* the marker to the next ```, to the end of the text when there is none.
FirstJsonBlock(text) ==
    LET after == SubSeq(text, Find(text, JsonFence) + 8, Len(text))
    IN IF Find(after, Fence) = -1 THEN after
       ELSE SubSeq(after, 1, Find(after, Fence))

\* The index in text of the brace that closes the braces open at index i, 0
\* when they are not closed.
RECURSIVE ClosingBrace(_, _, _)
ClosingBrace(text, i, open) ==
    IF i > Len(text) THEN 0
    ELSE IF text[i] = "{" THEN ClosingBrace(text, i + 1, open + 1)
    ELSE IF text[i] = "}" /\ open = 1 THEN i
    ELSE IF text[i] = "}" THEN ClosingBrace(text, i + 1, open - 1)
    ELSE ClosingBrace(text, i + 1, open)

\* The outermost span of balanced braces of a text, the empty text when it has
\* none.
BraceSpan(text) ==
    LET first == Find(text, <<"{">>) + 1
        last == IF first = 0 THEN 0 ELSE ClosingBrace(text, first, 0)
    IN IF last = 0 THEN << >> ELSE SubSeq(text, first, last)

\* The span of a text that the parser is to take.
SelectedSpan(text) ==
    IF Find(text, JsonFence) # -1 THEN FirstJsonBlock(text)
    ELSE IF BraceSpan(text) # << >> THEN BraceSpan(text)
    ELSE text

\* C28 (as claimed): the text the parser hands to json.loads is, whitespace
\* around it aside, the contents of the first ```json block of the answer,
\* else the outermost span of balanced braces, else the answer as it is.
C28_SpanSelection ==
    Parsed =>
        Strip(extracted_data.response_text)
            = Strip(SelectedSpan(response.text))

\* A prompt was built for the document of the event.
Built == prompt.builder # "none"

\* The blocks of the prompt that are of a kind, in their order.
BlocksOf(kind) == SelectSeq(prompt.blocks, LAMBDA b : b.block = kind)

\* The blocks of the prompt stand in the order of their sections.
InOrder(Section(_)) ==
    \A i, j \in DOMAIN prompt.blocks :
        i < j => Section(prompt.blocks[i].block) <= Section(prompt.blocks[j].block)

\* s ends with tail.
EndsWith(s, tail) ==
    Len(s) >= Len(tail) /\ SubSeq(s, Len(s) - Len(tail) + 1, Len(s)) = tail

\* The prompt has a line for every attribute of the request, in the order
\* of the request, with the attribute's name and then its description.
AttributesInOrder ==
    LET lines == BlocksOf("attribute")
    IN /\ Len(lines) = Len(attributes)
       /\ \A i \in DOMAIN lines :
              /\ Find(lines[i].content, attributes[i].name) # -1
              /\ EndsWith(lines[i].content, attributes[i].description)

\* The prompt has the input and the output of every example of the event,
\* in the order of the event, and the examples' heading only with examples.
ExamplesInOrder ==
    LET inputs == BlocksOf("example input")
        outputs == BlocksOf("example output")
        few_shot == event.few_shot_examples
    IN /\ Len(inputs) = Len(few_shot)
       /\ Len(outputs) = Len(few_shot)
       /\ \A i \in DOMAIN inputs :
              /\ EndsWith(inputs[i].content, few_shot[i].input)
              /\ Find(outputs[i].content,
                      DumpsValue(few_shot[i].output[KeyNames[1]])) # -1
       /\ (BlocksOf("examples heading") # << >>) = (few_shot # << >>)

\* The prompt has one block of the document, and it holds the text.
DocumentHoldsText ==
    LET docs == BlocksOf("document")
    IN Len(docs) = 1 /\ Find(docs[1].content, event.text) # -1

\* The sections of a prompt as the claim numbers them: the output rules are
\* of the first.
ClaimedSection(kind) ==
    CASE kind \in { "system", "output rule" } -> 1
      [] kind \in { "attributes heading", "attribute" } -> 2
      [] kind = "instructions" -> 3
      [] kind \in { "examples heading", "example input", "example output" } -> 4
      [] kind \in { "document heading", "document" } -> 5

\* The sections of a prompt as the builders write them.
BuiltSection(kind) ==
    CASE kind = "system" -> 1
      [] kind \in { "attributes heading", "attribute" } -> 2
      [] kind \in { "examples heading", "example input", "example output" } -> 3
      [] kind \in { "document heading", "document" } -> 4
      [] kind = "output rule" -> 5
      [] OTHER -> 0

TruncatedWithinLimit ==
    LET text == event.text
        out == returned.text
    IN IF count_tokens(text) <= max_tokens
       THEN out = text /\ ~EndsWith(out, TruncationMarker)
       ELSE \E k \in 0..(Len(text) - 1) :
                /\ out = SubSeq(text, 1, k) \o TruncationMarker
                /\ k \div 4 <= max_tokens

\* C30: a text whose estimate (length div 4) exceeds the limit is returned
\* as a shorter prefix of itself whose estimate is at most the limit, with
\* the truncation marker after it; a text within the limit is returned as it
\* is, with no marker; and the call shortens nothing else: the attributes'
\* names and descriptions and the instructions stay as they are.
C30_Truncation ==
    /\ [](returned.done => TruncatedWithinLimit)
    /\ [][returned' # returned =>
              /\ attributes' = attributes
              /\ event'.instructions = event.instructions]_vars

\* C30's case: truncate_text has cut a text to a limit that lets it keep a
\* part, for a request with attributes and instructions.
C30_Witness ==
    /\ returned.done
    /\ count_tokens(event.text) > max_tokens
    /\ max_tokens > 0
    /\ Len(event.text) % 4 # 0
    /\ Len(attributes) = 2
    /\ event.instructions # << >>

\* The provider of a model id: the part before the first dot, or the part
\* after it when the id starts with the region of an inference profile.
Provider(model_id) ==
    LET dot == Find(model_id, <<".">>)
        first == SubSeq(model_id, 1, dot)
        rest == SubSeq(model_id, dot + 2, Len(model_id))
    IN IF first = <<"u","s">> THEN SubSeq(rest, 1, Find(rest, <<".">>))
       ELSE first

\* The family of a model id by its provider, "none" for a provider whose
\* format the functions do not know.
FamilyOfProvider(model_id) ==
    IF Provider(model_id) = <<"a","n","t","h","r","o","p","i","c">>
    THEN "anthropic"
    ELSE IF Provider(model_id) = <<"m","e","t","a">> THEN "llama"
    ELSE "none"

\* C31 (as claimed): the body of a request has the format of the family of
\* the model id's provider and the answer is read in the same format; a call
\* with a model id of no known family has ended with UnsupportedModelError
\* once its body was to be built, and the endpoint was not invoked for it.
C31_ModelDispatch ==
    LET family == FamilyOfProvider(invocation.model_id)
    IN /\ invocation.body \in { "none", family }
       /\ invocation.sent \in { "none", invocation.body }
       /\ invocation.pc = "returned" => invocation.read = invocation.sent
       /\ (family = "none" /\ invocation.pc \notin { "idle", "called" }) =>
              /\ invocation.error = "UnsupportedModelError"
              /\ invocation.sent = "none"

\* The step that the running iteration of document d takes when nothing
\* fails: its task returns, or its Pass state ends the iteration.
OwnStep(d) == TaskSucceed(d) \/ Pass(d)

\* C32: while the execution runs, the running iteration of a document can
\* take its step whatever its siblings do, so of two documents in flight
\* either can end first; and a document that has not started can start
\* exactly when fewer than MaxConcurrency iterations are running.
C32_NoOrderBetweenDocuments ==
    \A d \in Docs :
        /\ (execution = "RUNNING" /\ iter[d] = "running") => ENABLED OwnStep(d)
        /\ (execution = "RUNNING" /\ iter[d] = "none") =>
               (ENABLED MapIterationStart(d)
                    <=> Cardinality({ e \in Docs : iter[e] = "running" })
                            < MaxConcurrency)

\* C32's case: of two documents of a batch, the second has ended with its
\* answer while the first, started too, is still in flight.
C32_Witness ==
    /\ Len(documents) >= 2
    /\ iter[1] = "running"
    /\ execs[1][st[1]] > 0
    /\ iter[2] = "succeeded"

\* C32's other order: the first has ended while the second is in flight.
C32_WitnessFirstEndsFirst ==
    /\ Len(documents) >= 2
    /\ iter[2] = "running"
    /\ iter[1] = "succeeded"

\* The step executes state s of document d: for the first time, or again.
\* The step is one of document d: it changes its state, its counters of
\* retries or its executions.
StepOf(d) ==
    iter[d] # "none" /\ << st[d], retries[d], execs[d] >>' # << st[d], retries[d], execs[d] >>

C34_AttemptsBounded ==
    \A d \in Docs :
        /\ \A s \in AcquisitionStates : execs[d][s] <= 4
        /\ \A s \in TaskStates \ AcquisitionStates : execs[d][s] <= 7

\* C34's case: both retriers of an invocation state are used up, the state
\* was executed 7 times, and the run can still raise an error.
C34_Witness ==
    \E s \in TaskStates \ AcquisitionStates :
        /\ execs[1][s] = 7
        /\ retries[1] = <<3, 3>>
        /\ iter[1] = "running"
        /\ budget > 0

\* C34's case of an acquisition state: its retrier is used up and it was
\* executed 4 times.
C34_WitnessAcquisition ==
    \E s \in AcquisitionStates :
        execs[1][s] = 4 /\ retries[1][1] = 3 /\ iter[1] = "running" /\ budget > 0

\* The file name has no "/".
NoSlash(name) == \A i \in DOMAIN name : name[i] # "/"

\* The letters of extensions written in upper case.
UpperCaseLetters ==
    { "A","B","C","D","E","F","G","H","I","J","K","L","M",
      "N","O","P","Q","R","S","T","U","V","W","X","Y","Z" }

\* The extension of the file name, the part after its last ".", has a
\* letter in upper case.
UpperCaseExtension(name) ==
    /\ RFind(name, <<".">>) # -1
    /\ \E i \in (RFind(name, <<".">>) + 2)..Len(name) :
           name[i] \in UpperCaseLetters

\* C35: a routed document whose file name has no "/", or has an extension
\* with a letter in upper case, has entered Run-BDA and no other strategy when
\* the parsing mode is the automation's, and Extract-text and no other
\* strategy with every other parsing mode, the LLM's included.
C35_ExtensionRulesNeedPathAndLowerCase ==
    \A d \in Docs :
        (iter[d] # "none"
           /\ (NoSlash(documents[d]) \/ UpperCaseExtension(documents[d])))
        => Entered(d, Strategies) =
               IF parsing_mode = "Bedrock Data Automation"
               THEN {"Run-BDA"} ELSE {"Extract-text"}

\* C35's case: a PDF with its extension in upper case and the LLM's parsing
\* mode is in Run-IDP-On-Text after Extract-text.
C35_Witness ==
    \E d \in Docs :
        /\ documents[d] = <<"d","/","a",".","P","D","F">>
        /\ parsing_mode = "Amazon Bedrock LLM"
        /\ st[d] = "Run-IDP-On-Text"
        /\ execs[d]["Extract-text"] > 0

\* C35's case of a name without "/": an office file named a.docx is in
\* Extract-text.
C35_WitnessNoSlash ==
    \E d \in Docs :
        /\ documents[d] = <<"a",".","d","o","c","x">>
        /\ st[d] = "Extract-text"

\* When the task of Read-Office-File succeeds for document d, the document is
\* next in Run-IDP-On-Text.
OfficeLeadsToText(d) ==
    st[d] = "Read-Office-File" /\ st'[d] # "Read-Office-File"
        /\ iter'[d] = "running"
        => st'[d] = "Run-IDP-On-Text"

C37_OfficeExtensionsAccepted ==
    \A d \in Docs :
        execs[d]["Read-Office-File"] > 0 =>
            ReadOfficeFileError(documents[d]) = ""

====
